---- MODULE Spec2Model ----
(***************************************************************************)
(* ICPA claim-evaluation pipeline (laxmanparmar/icpa-ai).                  *)
(*                                                                         *)
(* Two specifications share this module:                                   *)
(*   SpecEval  the Claim Decision Engine (ClaimEvaluator.evaluateClaim) as *)
(*             a function of the model backend's response;                 *)
(*   Spec      one job run: processBusinessLogic -> processClaimChain      *)
(*             (listing, image loop, PDF loop, policy retrieval with       *)
(*             fallback, decision).                                        *)
(*                                                                         *)
(* JavaScript values are tagged records, JavaScript objects are functions  *)
(* from the keys they carry to values.  A model response is a sequence of  *)
(* tokens: "F" a code-fence marker, "T" a run of prose, "{" and "}" the    *)
(* brace characters and "P" the serialized members of the payload object.  *)
(***************************************************************************)
EXTENDS Integers, Sequences, FiniteSets, TLC

VARIABLES
    pc,            \* position of the job run
    message,       \* the inbound message (object)
    userId,        \* the user identifier the run works for
    limit,         \* the result-count limit of the policy searches
    env,           \* environment variables that are set
    store,         \* the vector index: chunks ranked by score for the query
    fileKeys,      \* s3Result.fileKeys
    imgIdx,        \* position of the image loop in imageFiles
    pdfIdx,        \* position of the PDF loop in pdfFiles
    carDetails,    \* imageResult.carDetails
    pdfData,       \* pdfResult.pdfData
    fileLog,       \* per listed key: what happened to it
    vectorStore,   \* QdrantService.vectorStore of the job's service instance
    policies,      \* policyResult.policies
    searches,      \* the policy searches issued, in order
    evaluation,    \* evaluationResult
    jobError,      \* the error thrown out of the job run, or NoError
    calls,         \* external calls made by the job run, by kind
    llmResponse,   \* decision engine harness: the backend's response
    evalResult,    \* decision engine harness: what evaluateClaim returned
    evalPc,        \* decision engine harness: "ready" | "returned" | "repeated"
    evalAgain,     \* decision engine harness: what a second evaluateClaim returned
    evalInput,     \* the input the job run passed to claimEvaluator.evaluateClaim
    records,       \* event.Records of the batch handed to processSqsMessage
    recIdx,        \* position of processSqsMessage's loop in event.Records
    batchItemFailures, \* processSqsMessage: batchItemFailures
    batchResponse, \* what processSqsMessage returned
    recordLog,     \* per processed record: what processRecord did
    deleted,       \* messageIds the poller deleted from the queue
    delIdx,        \* position of pollAndProcess's delete loop in Messages
    batchPc,       \* position of pollAndProcess
    extractorResponse, \* parsing harness: the extraction model's response
    extracted,     \* parsing harness: what the two extractors made of it
    docChars,      \* parsing harness: length of the text extracted from a document
    submitted,     \* parsing harness: the part of the text put into the prompt
    inFlight,      \* positions of event.Records whose processRecord has not settled
    bucket,        \* listing harness: the keys stored in the bucket
    initCount,     \* QdrantService: calls of initializeVectorStore so far
    initPromise,   \* QdrantService: "pending" | "resolved" | "rejected"
    callers,       \* QdrantService: position of each caller of searchPolicies
    cycles,        \* LocalSqsProcessor: the pollAndProcess invocations so far
    queue,         \* LocalSqsProcessor: state of each message of the queue
    interval       \* LocalSqsProcessor: "unset" | "set" | "cleared"

pipelineVars == <<pc, message, userId, limit, env, store, fileKeys, imgIdx, pdfIdx, carDetails,
                  pdfData, fileLog, vectorStore, policies, searches, evaluation,
                  jobError, calls, evalInput>>
evalVars == <<llmResponse, evalResult, evalPc, evalAgain>>
batchVars == <<records, recIdx, batchItemFailures, batchResponse, recordLog, deleted,
               delIdx, batchPc, inFlight>>
parseVars == <<extractorResponse, extracted, docChars, submitted>>
listVars == <<bucket>>
qdrantVars == <<initCount, initPromise, callers>>
pollerVars == <<cycles, queue, interval>>
serviceVars == <<listVars, qdrantVars, pollerVars>>
harnessVars == <<evalVars, batchVars, parseVars, serviceVars>>
vars == <<pipelineVars, harnessVars>>

-----------------------------------------------------------------------------
(* JavaScript values *)

JUndef == [t |-> "undefined"]
JNull == [t |-> "null"]
JNaN == [t |-> "NaN"]
JStr(s) == [t |-> "string", s |-> s]
JNum(n) == [t |-> "number", n |-> n]
JArr(a) == [t |-> "array", a |-> a]

\* obj[key] of a JavaScript object: undefined when the key is absent
Get(obj, key) == IF key \in DOMAIN obj THEN obj[key] ELSE JUndef

\* the object literal carrying the members of f that are not undefined
\* (JSON text cannot carry undefined)
MkObj(f) == [k \in {k \in DOMAIN f : f[k] # JUndef} |-> f[k]]

EmptyObj == MkObj([x |-> JUndef])

\* JavaScript falsiness, as used by `x || fallback`
Falsy(v) ==
    \/ v.t \in {"undefined", "null", "NaN"}
    \/ v.t = "string" /\ v.s = ""
    \/ v.t = "number" /\ v.n = 0

IsString(v) == v.t = "string"

IsStringArray(v) == v.t = "array" /\ \A i \in 1..Len(v.a) : IsString(v.a[i])

-----------------------------------------------------------------------------
(* Model responses and their parsing *)

\* content.replace(/```json\n?/g, '').replace(/```\n?/g, '').trim()
StripFences(content) == SelectSeq(content, LAMBDA tok : tok # "F")

\* content.match(/\{[\s\S]*\}/): the leftmost "{" that has a "}" after it,
\* up to the LAST "}" of the content (the quantifier is greedy)
JsonMatch(content) ==
    LET closes == {j \in 1..Len(content) : content[j] = "}"}
        last == IF closes = {} THEN 0
                ELSE CHOOSE j \in closes : \A k \in closes : k <= j
        opens == {i \in 1..Len(content) : content[i] = "{" /\ i < last}
    IN  IF opens = {} THEN [found |-> FALSE, span |-> <<>>]
        ELSE LET first == CHOOSE i \in opens : \A k \in opens : i <= k
             IN  [found |-> TRUE, span |-> SubSeq(content, first, last)]

\* JSON.parse of a matched span whose payload members serialize obj
JsonParse(span, obj) ==
    IF span = <<"{", "P", "}">> THEN [ok |-> TRUE, value |-> obj]
    ELSE IF span = <<"{", "}">> THEN [ok |-> TRUE, value |-> EmptyObj]
    ELSE [ok |-> FALSE, value |-> EmptyObj]

ContentOf(shape) ==
    CASE shape = "bare" -> <<"{", "P", "}">>
      [] shape = "fenced" -> <<"F", "{", "P", "}", "F">>
      [] shape = "prose" -> <<"T", "{", "P", "}", "T">>
      [] shape = "text" -> <<"T">>
      [] shape = "unclosed" -> <<"{", "P">>
      [] shape = "garbled" -> <<"{", "T", "}">>
      [] shape = "empty" -> <<"{", "}">>
      [] shape = "fencedProse" -> <<"T", "F", "{", "P", "}", "F", "T">>
      [] shape = "bracesBefore" -> <<"T", "{", "T", "}", "T", "{", "P", "}">>
      [] shape = "bracesAfter" -> <<"{", "P", "}", "T", "{", "T", "}", "T">>

ParseableShapes == {"bare", "fenced", "prose"}

\* the payload wrapped in code fences and/or prose; in the last two the prose
\* itself holds a pair of braces
WrappedShapes == {"fenced", "prose", "fencedProse", "bracesBefore", "bracesAfter"}
Shapes == ParseableShapes \cup {"text", "unclosed", "garbled", "empty"}

\* a response of the model backend: the call fails, or returns content
Response(call, shape, obj) ==
    [call |-> call, shape |-> shape, content |-> ContentOf(shape), obj |-> obj]

-----------------------------------------------------------------------------
(* Claim Decision Engine: ClaimEvaluator.evaluateClaim *)

SchemaKeys == {"decision", "confidence", "reasoning", "policyReferences", "keyFactors"}

\* variant: decision declared z.string() instead of z.enum([...])
ClaimEvaluationSchema_parse_anyDecision(obj) ==
    LET confidence == Get(obj, "confidence")
    IN  [ok |-> /\ IsString(Get(obj, "decision"))
                /\ confidence.t = "number"
                /\ confidence.n >= 0
                /\ confidence.n <= 100
                /\ IsString(Get(obj, "reasoning"))
                /\ IsStringArray(Get(obj, "policyReferences"))
                /\ IsStringArray(Get(obj, "keyFactors")),
         value |-> [k \in SchemaKeys |-> Get(obj, k)]]

\* ClaimEvaluationSchema.parse: ok is FALSE where zod throws; on success the
\* value carries the schema's keys only (z.object strips unknown keys)
ClaimEvaluationSchema_parse(obj) ==
    LET confidence == Get(obj, "confidence")
    IN  [ok |-> /\ Get(obj, "decision") \in {JStr("Approved"), JStr("Rejected")}
                /\ confidence.t = "number"
                /\ confidence.n >= 0
                /\ confidence.n <= 100
                /\ IsString(Get(obj, "reasoning"))
                /\ IsStringArray(Get(obj, "policyReferences"))
                /\ IsStringArray(Get(obj, "keyFactors")),
         value |-> [k \in SchemaKeys |-> Get(obj, k)]]

\* Math.max(0, Math.min(100, v))
ClampConfidence(v) ==
    IF v.t # "number" THEN JNaN
    ELSE JNum(IF v.n > 100 THEN 100 ELSE IF v.n < 0 THEN 0 ELSE v.n)

\* the object returned by the catch block of evaluateClaim
EvaluationError(msg) ==
    [decision |-> JStr("Rejected"),
     confidence |-> JNum(0),
     reasoning |-> JStr(msg),
     policyReferences |-> JArr(<<>>),
     keyFactors |-> JArr(<<JStr("Evaluation error occurred")>>)]

\* variant: reasoning copied without the `|| 'No reasoning provided'` default
BuildEvaluation_rawReasoning(validatedResult) ==
    [decision |-> IF validatedResult.decision = JStr("Approved")
                  THEN JStr("Approved") ELSE JStr("Rejected"),
     confidence |-> ClampConfidence(validatedResult.confidence),
     reasoning |-> validatedResult.reasoning,
     policyReferences |-> validatedResult.policyReferences,
     keyFactors |-> validatedResult.keyFactors]

\* variant: the evaluator remembers that it has already answered
BuildEvaluation_remembering(validatedResult) ==
    [decision |-> IF validatedResult.decision = JStr("Approved")
                  THEN JStr("Approved") ELSE JStr("Rejected"),
     confidence |-> IF evalResult = [t |-> "none"]
                    THEN ClampConfidence(validatedResult.confidence) ELSE JNum(0),
     reasoning |-> IF Falsy(validatedResult.reasoning)
                   THEN JStr("No reasoning provided")
                   ELSE validatedResult.reasoning,
     policyReferences |-> IF validatedResult.policyReferences.t = "array"
                          THEN validatedResult.policyReferences ELSE JArr(<<>>),
     keyFactors |-> IF validatedResult.keyFactors.t = "array"
                    THEN validatedResult.keyFactors ELSE JArr(<<>>)]

\* the object built from the validated result
BuildEvaluation(validatedResult) ==
    [decision |-> IF validatedResult.decision = JStr("Approved")
                  THEN JStr("Approved") ELSE JStr("Rejected"),
     confidence |-> ClampConfidence(validatedResult.confidence),
     reasoning |-> IF Falsy(validatedResult.reasoning)
                   THEN JStr("No reasoning provided")
                   ELSE validatedResult.reasoning,
     policyReferences |-> IF validatedResult.policyReferences.t = "array"
                          THEN validatedResult.policyReferences ELSE JArr(<<>>),
     keyFactors |-> IF validatedResult.keyFactors.t = "array"
                    THEN validatedResult.keyFactors ELSE JArr(<<>>)]

ClaimEvaluator_evaluateClaim(response) ==
    IF response.call # "ok"
    THEN EvaluationError("Error during evaluation: model call failed")
    ELSE LET content == StripFences(response.content)
             jsonMatch == JsonMatch(content)
             parsedResult == JsonParse(jsonMatch.span, response.obj)
             validatedResult == ClaimEvaluationSchema_parse(parsedResult.value)
         IN  IF ~jsonMatch.found
             THEN EvaluationError("Error during evaluation: No valid JSON found in LLM response")
             ELSE IF ~parsedResult.ok
             THEN EvaluationError("Error during evaluation: Unexpected token in JSON")
             ELSE IF ~validatedResult.ok
             THEN EvaluationError("Error during evaluation: schema validation failed")
             ELSE BuildEvaluation(validatedResult.value)

\* what the backend may answer to the decision prompt
RawConfidences == {-20, 0, 55, 100, 150}
DecisionOpts == {JStr("Approved"), JStr("Rejected"), JStr("Maybe"), JUndef}
ConfidenceOpts == {JNum(n) : n \in RawConfidences} \cup {JStr("high"), JUndef}
ReasoningOpts == {JStr("covered by section 2"), JStr(""), JNum(7), JUndef}
ListOpts == {JArr(<<>>), JArr(<<JStr("s1")>>), JArr(<<JNum(1)>>), JStr("s1"), JUndef}

EvalPayloads ==
    {MkObj([decision |-> d, confidence |-> c, reasoning |-> r,
            policyReferences |-> p, keyFactors |-> k, note |-> n]) :
        d \in DecisionOpts, c \in ConfidenceOpts, r \in ReasoningOpts,
        p \in ListOpts, k \in ListOpts, n \in {JUndef, JStr("extra")}}

EvalResponses ==
    {Response("ok", sh, o) : sh \in Shapes, o \in EvalPayloads}
        \cup {Response("error", "text", EmptyObj)}

NoResult == [t |-> "none"]

\* claimEvaluator.evaluateClaim has not been called by the job run
NoInput == [t |-> "none"]

\* no batch is being polled or processed
IdleBatch ==
    /\ records = <<>>
    /\ recIdx = 1
    /\ batchItemFailures = <<>>
    /\ batchResponse = "none"
    /\ recordLog = <<>>
    /\ deleted = {}
    /\ delIdx = 1
    /\ batchPc = "idle"
    /\ inFlight = {}

\* no extraction response is under examination
IdleParse ==
    /\ extractorResponse = [call |-> "none", shape |-> "none", content |-> <<>>,
                            obj |-> EmptyObj]
    /\ extracted = NoResult
    /\ docChars = 0
    /\ submitted = NoResult

\* no bucket is listed, no QdrantService is constructed, no poller is started
IdleList == bucket = {}
IdleQdrant == initCount = 0 /\ initPromise = "none" /\ callers = <<>>
IdlePoller == cycles = <<>> /\ queue = <<>> /\ interval = "unset"
IdleServices == IdleList /\ IdleQdrant /\ IdlePoller

-----------------------------------------------------------------------------
(* The job run has not started: the pipeline part of a harness state *)

NoError == "none"
\* agent: calls of a model that has the retrieve_policies tool bound
NoCalls == [list |-> 0, download |-> 0, contentType |-> 0, vision |-> 0,
            docModel |-> 0, agent |-> 0, search |-> 0, decision |-> 0]

IdleJob ==
    /\ pc = "idle"
    /\ message = EmptyObj
    /\ userId = JUndef
    /\ limit = 0
    /\ store = <<>>
    /\ fileKeys = <<>>
    /\ imgIdx = 1
    /\ pdfIdx = 1
    /\ carDetails = <<>>
    /\ pdfData = <<>>
    /\ fileLog = <<>>
    /\ vectorStore = "unset"
    /\ policies = <<>>
    /\ searches = <<>>
    /\ evaluation = NoResult
    /\ jobError = NoError
    /\ calls = NoCalls
    /\ evalInput = NoInput

IdlePipeline == IdleJob /\ env = {}

-----------------------------------------------------------------------------
(* SpecEval: evaluateClaim applied to every response of EvalResponses *)

InitEval ==
    /\ IdlePipeline
    /\ IdleBatch
    /\ IdleParse
    /\ IdleServices
    /\ llmResponse \in EvalResponses
    /\ evalResult = NoResult
    /\ evalAgain = NoResult
    /\ evalPc = "ready"

EvaluateClaimCall ==
    /\ evalPc = "ready"
    /\ evalResult' = ClaimEvaluator_evaluateClaim(llmResponse)
    /\ evalPc' = "returned"
    /\ UNCHANGED <<llmResponse, evalAgain, pipelineVars, batchVars, parseVars, serviceVars>>

\* a second invocation with the same input, the backend answering the same
EvaluateClaimAgain ==
    /\ evalPc = "returned"
    /\ evalAgain' = ClaimEvaluator_evaluateClaim(llmResponse)
    /\ evalPc' = "repeated"
    /\ UNCHANGED <<llmResponse, evalResult, pipelineVars, batchVars, parseVars, serviceVars>>

NextEval ==
    \/ EvaluateClaimCall
    \/ EvaluateClaimAgain

SpecEval == InitEval /\ [][NextEval]_vars

-----------------------------------------------------------------------------
(* Artifact keys and their classification *)

\* key.toLowerCase() on the extensions the model lists
Lower(ext) == IF ext = "JPG" THEN "jpg" ELSE ext

\* the S3 key users/{user}/{name}.{ext}
Key(user, name, ext) == [user |-> user, name |-> name, ext |-> ext]

\* variant: processImages takes every listed key
IsImageKey_any(key) == TRUE

\* processImages: ['jpg','jpeg','png','gif','webp'].includes(ext)
IsImageKey(key) == Lower(key.ext) \in {"jpg", "jpeg", "png", "gif", "webp"}

\* processPDFs: key.toLowerCase().endsWith('.pdf')
IsPdfKey(key) == Lower(key.ext) = "pdf"

\* fileKeys.filter(...): the positions of the keys that pass, in listing order
Positions(passes) ==
    LET F[i \in 0..Len(passes)] ==
            IF i = 0 THEN <<>>
            ELSE IF passes[i] THEN Append(F[i - 1], i) ELSE F[i - 1]
    IN  F[Len(passes)]

imageFiles == Positions([i \in 1..Len(fileKeys) |-> IsImageKey(fileKeys[i])])
pdfFiles == Positions([i \in 1..Len(fileKeys) |-> IsPdfKey(fileKeys[i])])

\* S3Service.getContentTypeFromExtension
getContentTypeFromExtension(key) ==
    LET extension == Lower(key.ext)
    IN  CASE extension \in {"jpg", "jpeg"} -> "image/jpeg"
          [] extension = "png" -> "image/png"
          [] extension = "gif" -> "image/gif"
          [] extension = "pdf" -> "application/pdf"
          [] extension = "txt" -> "text/plain"
          [] OTHER -> "application/octet-stream"

\* S3Service.getFileContentType: the stored type, the default when the object
\* carries none, the extension's type when the request fails
S3Service_getFileContentType(key, outcome) ==
    CASE outcome = "error" -> getContentTypeFromExtension(key)
      [] outcome = "untyped" -> "application/octet-stream"
      [] OTHER -> outcome

ContentTypeOutcomes == {"error", "untyped", "image/jpeg", "application/pdf"}

\* variant: a failed download is logged and an empty buffer returned
S3Service_downloadFile_swallow(outcome) == [threw |-> FALSE]

\* S3Service.downloadFile: the buffer, or the error it re-throws
S3Service_downloadFile(outcome) == [threw |-> outcome # "ok"]

\* handler/index.ts processImages: isImage
IsImage(contentType, key) ==
    \/ contentType \in {"image/jpeg", "image/jpg", "image/png", "image/gif", "image/webp"}
    \/ Lower(key.ext) \in {"jpg", "jpeg", "png", "gif", "webp"}

-----------------------------------------------------------------------------
(* Vision Extractor: ImageProcessor.processImage *)

CarKeys == {"carColor", "carModel", "carNumber", "damageArea", "description"}

EmptyCarDetails == [k \in CarKeys |-> JNull]

\* variant: the catch block re-throws instead of returning empty details
ImageProcessor_processImage_rethrow(response) ==
    LET jsonMatch == JsonMatch(response.content)
        parsed == JsonParse(jsonMatch.span, response.obj)
        bad == response.call # "ok" \/ ~jsonMatch.found \/ ~parsed.ok
    IN  [threw |-> bad,
         details |->
            IF bad THEN EmptyCarDetails
            ELSE [k \in CarKeys |->
                    IF Falsy(Get(parsed.value, k)) THEN JNull
                    ELSE Get(parsed.value, k)]]

\* variant: one empty member empties the whole record
ImageProcessor_processImage_allOrNothing(response) ==
    LET jsonMatch == JsonMatch(response.content)
        parsed == JsonParse(jsonMatch.span, response.obj)
    IN  [threw |-> FALSE,
         details |->
            IF response.call # "ok" \/ ~jsonMatch.found \/ ~parsed.ok
               \/ \E k \in CarKeys : Falsy(Get(parsed.value, k))
            THEN EmptyCarDetails
            ELSE [k \in CarKeys |-> Get(parsed.value, k)]]

ImageProcessor_processImage(response) ==
    LET jsonMatch == JsonMatch(response.content)
        parsed == JsonParse(jsonMatch.span, response.obj)
    IN  [threw |-> FALSE,
         details |->
            IF response.call # "ok" \/ ~jsonMatch.found \/ ~parsed.ok
            THEN EmptyCarDetails
            ELSE [k \in CarKeys |->
                    IF Falsy(Get(parsed.value, k)) THEN JNull
                    ELSE Get(parsed.value, k)]]

FullCar == [carColor |-> JStr("red"), carModel |-> JStr("Toyota Camry"),
            carNumber |-> JStr("KA01AB1234"), damageArea |-> JStr("front bumper"),
            description |-> JStr("dented bumper")]
PartialCar == MkObj([carColor |-> JStr("red"), carModel |-> JNull,
                     carNumber |-> JStr(""), damageArea |-> JNum(3)])

VisionResponses ==
    {Response("error", "text", EmptyObj),
     Response("ok", "text", FullCar),
     Response("ok", "garbled", FullCar),
     Response("ok", "fenced", FullCar),
     Response("ok", "prose", PartialCar)}

-----------------------------------------------------------------------------
(* Document Extractor: PDFProcessor.processPDF *)

JObj(o) == [t |-> "object", o |-> o]

PdfStringKeys == {"incidentDate", "vehicleNumber", "vehicleColor", "vehicleModel",
                  "vehicleYear", "policyholderName", "policyholderLicenseNumber",
                  "policyholderAddress", "damageDescription", "accidentLocation"}

\* PDFExtractionSchema.parse: z.string().nullable().optional() members and an
\* optional record; unknown keys are stripped, absent keys stay absent
PDFExtractionSchema_parse(obj) ==
    [ok |-> /\ \A k \in PdfStringKeys :
                  Get(obj, k).t \in {"string", "null", "undefined"}
            /\ Get(obj, "additionalInfo").t \in {"object", "undefined"},
     value |-> [k \in DOMAIN obj \cap (PdfStringKeys \cup {"additionalInfo"}) |-> obj[k]]]

\* variant: a payload that fails validation is discarded
PDFProcessor_extractFieldsWithLLM_strict(response) ==
    LET content == StripFences(response.content)
        jsonMatch == JsonMatch(content)
        parsedResult == JsonParse(jsonMatch.span, response.obj)
        validatedResult == PDFExtractionSchema_parse(parsedResult.value)
    IN  IF response.call # "ok" \/ ~jsonMatch.found \/ ~parsedResult.ok
        THEN EmptyObj
        ELSE IF validatedResult.ok THEN validatedResult.value
        ELSE EmptyObj

PDFProcessor_extractFieldsWithLLM(response) ==
    LET content == StripFences(response.content)
        jsonMatch == JsonMatch(content)
        parsedResult == JsonParse(jsonMatch.span, response.obj)
        validatedResult == PDFExtractionSchema_parse(parsedResult.value)
    IN  IF response.call # "ok" \/ ~jsonMatch.found \/ ~parsedResult.ok
        THEN EmptyObj
        ELSE IF validatedResult.ok THEN validatedResult.value
        ELSE parsedResult.value

\* text is what extractTextFromPDF returned ("" when it failed or found none)
PDFProcessor_processPDF(text, response) ==
    [threw |-> FALSE,
     data |-> IF text = ""
              THEN [text |-> "", extractedFields |-> EmptyObj]
              ELSE [text |-> text,
                    extractedFields |-> PDFProcessor_extractFieldsWithLLM(response)]]

PoliceReport == MkObj([incidentDate |-> JStr("2025-11-05"), vehicleNumber |-> JStr("KA01AB1234"),
                       vehicleColor |-> JNull, note |-> JStr("extra")])
MistypedReport == MkObj([incidentDate |-> JStr("2025-11-05"), vehicleYear |-> JNum(2019)])

DocTexts == {"", "police report text"}

DocResponses ==
    {Response("error", "text", EmptyObj),
     Response("ok", "text", PoliceReport),
     Response("ok", "garbled", PoliceReport),
     Response("ok", "fenced", PoliceReport),
     Response("ok", "bare", MistypedReport)}

-----------------------------------------------------------------------------
(* Policy Retriever: QdrantService *)

PolicySource == "insurance_claim_policy"

\* a stored chunk: its id and the metadata members the filters read
\* ("" where the chunk carries no such member)
Chunk(id, source, user) == [id |-> id, source |-> source, userId |-> user]

\* one Qdrant `must` condition {key: 'metadata.<key>', match: {value}}
Cond(key, value) == [key |-> key, value |-> value]

\* a chunk satisfies a {must: [...]} filter when it satisfies every condition
Matches(chunk, must) ==
    \A i \in 1..Len(must) : chunk[must[i].key] = must[i].value

\* searchPolicies: the filter it builds
PrimaryFilter(source) == <<Cond("source", source)>>

\* searchPoliciesWithFilter: the filter it builds from {source, userId}
\* (the source condition first, then one condition per other defined key)
CustomFilter(filter) ==
    LET sourceValue == IF Falsy(Get(filter, "source")) THEN PolicySource
                       ELSE filter.source.s
        others == IF "userId" \in DOMAIN filter
                  THEN <<Cond("userId", filter.userId.s)>> ELSE <<>>
    IN  <<Cond("source", sourceValue)>> \o others

Take(seq, n) == SubSeq(seq, 1, IF Len(seq) < n THEN Len(seq) ELSE n)

\* vectorStore.similaritySearchWithScore(query, limit, filter) on an index
\* whose chunks are ranked by score for the query
similaritySearchWithScore(index, n, must) ==
    Take(SelectSeq(index, LAMBDA c : Matches(c, must)), n)

\* variant: the catch block of searchPolicies re-throws
QdrantService_searchPolicies_rethrow(index, initOk, callOk, n, source) ==
    LET results == similaritySearchWithScore(index, n, PrimaryFilter(source))
    IN  [threw |-> ~(initOk /\ callOk),
         queried |-> initOk,
         failed |-> ~(initOk /\ callOk),
         policies |->
            IF ~(initOk /\ callOk) THEN <<>>
            ELSE [i \in 1..Len(results) |->
                    [id |-> results[i].id,
                     source |-> IF results[i].source = "" THEN source
                                ELSE results[i].source,
                     userId |-> results[i].userId]]]

\* variant: the catch block of searchPoliciesWithFilter re-throws
QdrantService_searchPoliciesWithFilter_rethrow(index, initOk, callOk, n, filter) ==
    LET results == similaritySearchWithScore(index, n, CustomFilter(filter))
    IN  [threw |-> ~(initOk /\ callOk),
         queried |-> initOk,
         failed |-> ~(initOk /\ callOk),
         policies |->
            IF ~(initOk /\ callOk) THEN <<>>
            ELSE [i \in 1..Len(results) |->
                    [id |-> results[i].id,
                     source |-> filter.source.s,
                     userId |-> filter.userId.s]]]

\* initOk: the initPromise resolved; callOk: the search request succeeded
QdrantService_searchPolicies(index, initOk, callOk, n, source) ==
    LET results == similaritySearchWithScore(index, n, PrimaryFilter(source))
    IN  [threw |-> FALSE,
         queried |-> initOk,
         failed |-> ~(initOk /\ callOk),
         policies |->
            IF ~(initOk /\ callOk) THEN <<>>
            ELSE [i \in 1..Len(results) |->
                    [id |-> results[i].id,
                     source |-> IF results[i].source = "" THEN source
                                ELSE results[i].source,
                     userId |-> results[i].userId]]]

QdrantService_searchPoliciesWithFilter(index, initOk, callOk, n, filter) ==
    LET results == similaritySearchWithScore(index, n, CustomFilter(filter))
    IN  [threw |-> FALSE,
         queried |-> initOk,
         failed |-> ~(initOk /\ callOk),
         policies |->
            IF ~(initOk /\ callOk) THEN <<>>
            ELSE [i \in 1..Len(results) |->
                    [id |-> results[i].id,
                     source |-> filter.source.s,
                     userId |-> filter.userId.s]]]

-----------------------------------------------------------------------------
(* The job run: processBusinessLogic -> processClaimChain *)

MaxFiles == 2
SearchLimit == 10

RequiredEnv == {"SQS_QUEUE_NAME", "AWS_REGION", "AWS_ACCOUNT_ID", "S3_BUCKET_NAME",
                "OPENAI_API_KEY", "QDRANT_URL", "QDRANT_API_KEY",
                "QDRANT_COLLECTION_NAME"}

\* getConfig: LocalSqsProcessorConfigSchema.safeParse of the environment
\* (pollInterval and maxMessages have defaults; every other member must be set)
getConfig(environment) == [ok |-> RequiredEnv \subseteq environment]

\* the variables the README lists as required for deployment
DeploymentEnv == {"S3_BUCKET_NAME", "OPENAI_API_KEY", "QDRANT_URL", "QDRANT_API_KEY",
                  "QDRANT_COLLECTION_NAME", "AWS_REGION"}

\* the variables set in process.env: all that getConfig reads, all but one,
\* or exactly those of the deployment list
Envs == {RequiredEnv} \cup {RequiredEnv \ {v} : v \in RequiredEnv} \cup {DeploymentEnv}

Messages == {EmptyObj,
             MkObj([userId |-> JStr("")]),
             MkObj([userId |-> JStr("u1")]),
             MkObj([user_id |-> JStr("u1")])}

FileExts == {"JPG", "pdf", "txt"}

\* what ListObjectsV2 may return under users/{user}/: up to MaxFiles keys
Listings(user) ==
    UNION {{[i \in 1..n |-> Key(user, i, e[i])] : e \in [1..n -> FileExts]} :
           n \in 0..MaxFiles}

\* the extraction model was not called
NoResponse == [call |-> "none", shape |-> "none", content |-> <<>>, obj |-> EmptyObj]

\* fileLog entry: the download outcome, the text extracted (documents), the
\* extraction model's response (NoResponse when it was not called) and the
\* position of the record pushed for the key (0 when none was)
NoEntry == [download |-> "none", text |-> "", input |-> NoResponse, rec |-> 0]

PipelineStores == {<<>>, <<Chunk(1, PolicySource, "u1"), Chunk(2, PolicySource, "")>>}

PipelineEvalResponses ==
    {Response("error", "text", EmptyObj),
     Response("ok", "text", EmptyObj),
     Response("ok", "fenced",
              MkObj([decision |-> JStr("Approved"), confidence |-> JNum(55),
                     reasoning |-> JStr("covered by section 2"),
                     policyReferences |-> JArr(<<JStr("s1")>>),
                     keyFactors |-> JArr(<<>>)])),
     Response("ok", "bare",
              MkObj([decision |-> JStr("Rejected"), confidence |-> JNum(150),
                     reasoning |-> JStr(""), policyReferences |-> JArr(<<>>),
                     keyFactors |-> JArr(<<>>)]))}

MissingUserId == "userId is required in the message"
ConfigInvalid == "Configuration validation failed"
ListFailed == "Error fetching files"
NoFilesFound == "No files found in S3 for this userId"

Inc(c, kind) == [c EXCEPT ![kind] = @ + 1]

IdleEval ==
    /\ llmResponse = Response("error", "text", EmptyObj)
    /\ evalResult = NoResult
    /\ evalAgain = NoResult
    /\ evalPc = "idle"

Init ==
    /\ pc = "start"
    /\ message \in Messages
    /\ userId = JUndef
    /\ limit = SearchLimit
    /\ env \in Envs
    /\ store \in PipelineStores
    /\ fileKeys = <<>>
    /\ imgIdx = 1
    /\ pdfIdx = 1
    /\ carDetails = <<>>
    /\ pdfData = <<>>
    /\ fileLog = <<>>
    /\ vectorStore = "unset"
    /\ policies = <<>>
    /\ searches = <<>>
    /\ evaluation = NoResult
    /\ jobError = NoError
    /\ calls = NoCalls
    /\ evalInput = NoInput
    /\ IdleEval
    /\ IdleBatch
    /\ IdleParse
    /\ IdleServices

\* the run ends with `err` thrown to processRecord
Throw(err) == pc' = "failed" /\ jobError' = err

\* processBusinessLogic up to the call of processClaimChain
StartJob ==
    /\ pc = "start"
    /\ userId' = IF Falsy(Get(message, "userId")) THEN Get(message, "user_id")
                 ELSE Get(message, "userId")
    /\ IF Falsy(userId') THEN Throw(MissingUserId)
       ELSE IF ~getConfig(env).ok THEN Throw(ConfigInvalid)
       ELSE pc' = "list" /\ jobError' = jobError
    /\ UNCHANGED <<message, limit, env, store, fileKeys, imgIdx, pdfIdx, carDetails,
                   pdfData, fileLog, vectorStore, policies, searches, evaluation,
                   calls, evalInput, harnessVars>>

\* variant: processClaimChain without the totalFiles === 0 check
Step1_pullDataFromS3_noEmptyCheck ==
    /\ pc = "list"
    /\ calls' = Inc(calls, "list")
    /\ \/ /\ Throw(ListFailed)
          /\ UNCHANGED <<fileKeys, fileLog>>
       \/ \E files \in Listings(userId.s) :
            /\ fileKeys' = files
            /\ fileLog' = [i \in 1..Len(files) |-> NoEntry]
            /\ pc' = "images"
            /\ jobError' = jobError
    /\ UNCHANGED <<message, userId, limit, env, store, imgIdx, pdfIdx, carDetails,
                   pdfData, vectorStore, policies, searches, evaluation, evalInput, harnessVars>>

\* variant: a failed listing is attempted a second time
Step1_pullDataFromS3_retry ==
    /\ pc = "list"
    /\ calls' = Inc(calls, "list")
    /\ \/ /\ IF calls.list = 0 THEN pc' = pc /\ jobError' = jobError
             ELSE Throw(ListFailed)
          /\ UNCHANGED <<fileKeys, fileLog>>
       \/ \E files \in Listings(userId.s) :
            /\ fileKeys' = files
            /\ fileLog' = [i \in 1..Len(files) |-> NoEntry]
            /\ IF Len(files) = 0 THEN Throw(NoFilesFound)
               ELSE pc' = "images" /\ jobError' = jobError
    /\ UNCHANGED <<message, userId, limit, env, store, imgIdx, pdfIdx, carDetails,
                   pdfData, vectorStore, policies, searches, evaluation, evalInput, harnessVars>>

\* step1_pullDataFromS3 and the totalFiles === 0 check
Step1_pullDataFromS3 ==
    /\ pc = "list"
    /\ calls' = Inc(calls, "list")
    /\ \/ /\ Throw(ListFailed)
          /\ UNCHANGED <<fileKeys, fileLog>>
       \/ \E files \in Listings(userId.s) :
            /\ fileKeys' = files
            /\ fileLog' = [i \in 1..Len(files) |-> NoEntry]
            /\ IF Len(files) = 0 THEN Throw(NoFilesFound)
               ELSE pc' = "images" /\ jobError' = jobError
    /\ UNCHANGED <<message, userId, limit, env, store, imgIdx, pdfIdx, carDetails,
                   pdfData, vectorStore, policies, searches, evaluation, evalInput, harnessVars>>

\* one iteration of the for loop of processImages
ProcessImage ==
    /\ pc = "images"
    /\ imgIdx <= Len(imageFiles)
    /\ imgIdx' = imgIdx + 1
    /\ LET i == imageFiles[imgIdx]
           fileKey == fileKeys[i]
       IN  \E dl \in {"ok", "error"}, ct \in ContentTypeOutcomes, response \in VisionResponses :
             LET contentType == S3Service_getFileContentType(fileKey, ct)
                 details == ImageProcessor_processImage(response)
             IN  IF S3Service_downloadFile(dl).threw
                 THEN /\ calls' = Inc(calls, "download")
                      /\ fileLog' = [fileLog EXCEPT ![i] =
                            [download |-> dl, text |-> "", input |-> NoResponse, rec |-> 0]]
                      /\ carDetails' = carDetails
                 ELSE IF ~IsImage(contentType, fileKey)
                 THEN /\ calls' = Inc(Inc(calls, "download"), "contentType")
                      /\ fileLog' = [fileLog EXCEPT ![i] =
                            [download |-> dl, text |-> "", input |-> NoResponse, rec |-> 0]]
                      /\ carDetails' = carDetails
                 ELSE /\ calls' = Inc(Inc(Inc(calls, "download"), "contentType"), "vision")
                      /\ carDetails' = IF details.threw THEN carDetails
                                       ELSE Append(carDetails, details.details)
                      /\ fileLog' = [fileLog EXCEPT ![i] =
                            [download |-> dl, text |-> "", input |-> response,
                             rec |-> IF details.threw THEN 0 ELSE Len(carDetails')]]
    /\ UNCHANGED <<pc, message, userId, limit, env, store, fileKeys, pdfIdx, pdfData,
                   vectorStore, policies, searches, evaluation, jobError, evalInput, harnessVars>>

\* variant: the policies are retrieved as soon as the images are done
FinishImages_skipPDFs ==
    /\ pc = "images"
    /\ imgIdx > Len(imageFiles)
    /\ pc' = "retrieve"
    /\ UNCHANGED <<message, userId, limit, env, store, fileKeys, imgIdx, pdfIdx,
                   carDetails, pdfData, fileLog, vectorStore, policies, searches,
                   evaluation, jobError, calls, evalInput, harnessVars>>

\* processImages returns
FinishImages ==
    /\ pc = "images"
    /\ imgIdx > Len(imageFiles)
    /\ pc' = "pdfs"
    /\ UNCHANGED <<message, userId, limit, env, store, fileKeys, imgIdx, pdfIdx,
                   carDetails, pdfData, fileLog, vectorStore, policies, searches,
                   evaluation, jobError, calls, evalInput, harnessVars>>

\* one iteration of the for loop of processPDFs
ProcessPDF ==
    /\ pc = "pdfs"
    /\ pdfIdx <= Len(pdfFiles)
    /\ pdfIdx' = pdfIdx + 1
    /\ LET i == pdfFiles[pdfIdx]
       IN  \E dl \in {"ok", "error"}, text \in DocTexts, response \in DocResponses :
             LET data == PDFProcessor_processPDF(text, response)
             IN  IF S3Service_downloadFile(dl).threw
                 THEN /\ calls' = Inc(calls, "download")
                      /\ fileLog' = [fileLog EXCEPT ![i] =
                            [download |-> dl, text |-> "", input |-> NoResponse, rec |-> 0]]
                      /\ pdfData' = pdfData
                 ELSE /\ calls' = IF text = "" THEN Inc(calls, "download")
                                  ELSE Inc(Inc(calls, "download"), "docModel")
                      /\ pdfData' = IF data.threw THEN pdfData
                                    ELSE Append(pdfData, data.data)
                      /\ fileLog' = [fileLog EXCEPT ![i] =
                            [download |-> dl, text |-> text,
                             input |-> IF text = "" THEN NoResponse ELSE response,
                             rec |-> IF data.threw THEN 0 ELSE Len(pdfData')]]
    /\ UNCHANGED <<pc, message, userId, limit, env, store, fileKeys, imgIdx, carDetails,
                   vectorStore, policies, searches, evaluation, jobError, evalInput, harnessVars>>

\* processPDFs returns
FinishPDFs ==
    /\ pc = "pdfs"
    /\ pdfIdx > Len(pdfFiles)
    /\ pc' = "retrieve"
    /\ UNCHANGED <<message, userId, limit, env, store, fileKeys, imgIdx, pdfIdx,
                   carDetails, pdfData, fileLog, vectorStore, policies, searches,
                   evaluation, jobError, calls, evalInput, harnessVars>>

\* variant: no second search is ever made
ShouldFallback_never(found, user, n) == FALSE

\* variant: the fallback tops up whenever fewer than `limit` chunks came back
ShouldFallback_topUp(found, user, n) == Len(found) < n /\ ~Falsy(user)

\* retrievePolicies / the tool's func: `policies.length === 0 && userId`
ShouldFallback(found, user, n) == Len(found) = 0 /\ ~Falsy(user)

SearchEntry(op, must, r) ==
    [op |-> op, must |-> must, failed |-> r.failed, result |-> r.policies]

\* new QdrantService(...) and the primary search
PrimarySearch ==
    /\ pc = "retrieve"
    /\ \E initOk \in BOOLEAN, callOk \in BOOLEAN :
         LET r == QdrantService_searchPolicies(store, initOk, callOk, limit, PolicySource)
         IN  /\ vectorStore' = IF initOk THEN "ready" ELSE "failed"
             /\ calls' = IF r.queried THEN Inc(calls, "search") ELSE calls
             /\ searches' = Append(searches,
                    SearchEntry("searchPolicies", PrimaryFilter(PolicySource), r))
             /\ IF r.threw
                THEN Throw("Error searching Qdrant") /\ policies' = policies
                ELSE pc' = "fallback" /\ policies' = r.policies /\ jobError' = jobError
    /\ UNCHANGED <<message, userId, limit, env, store, fileKeys, imgIdx, pdfIdx,
                   carDetails, pdfData, fileLog, evaluation, evalInput, harnessVars>>

\* the second search, with {source, userId}, and policies.push(...)
FallbackSearch ==
    /\ pc = "fallback"
    /\ ShouldFallback(policies, userId, limit)
    /\ \E callOk \in BOOLEAN :
         LET filter == MkObj([source |-> JStr(PolicySource), userId |-> userId])
             r == QdrantService_searchPoliciesWithFilter(
                      store, vectorStore = "ready", callOk, limit, filter)
         IN  /\ calls' = IF r.queried THEN Inc(calls, "search") ELSE calls
             /\ searches' = Append(searches,
                    SearchEntry("searchPoliciesWithFilter", CustomFilter(filter), r))
             /\ IF r.threw
                THEN Throw("Error searching Qdrant with filter") /\ policies' = policies
                ELSE /\ pc' = "evaluate"
                     /\ policies' = policies \o r.policies
                     /\ jobError' = jobError
    /\ UNCHANGED <<message, userId, limit, env, store, fileKeys, imgIdx, pdfIdx,
                   carDetails, pdfData, fileLog, vectorStore, evaluation, evalInput, harnessVars>>

\* no second search: retrievePolicies returns the primary results
SkipFallback ==
    /\ pc = "fallback"
    /\ ~ShouldFallback(policies, userId, limit)
    /\ pc' = "evaluate"
    /\ UNCHANGED <<message, userId, limit, env, store, fileKeys, imgIdx, pdfIdx,
                   carDetails, pdfData, fileLog, vectorStore, policies, searches,
                   evaluation, jobError, calls, evalInput, harnessVars>>

\* variant: the run fails after the decision was made
EvaluateClaim_thenThrow ==
    /\ pc = "evaluate"
    /\ \E response \in PipelineEvalResponses :
         evaluation' = ClaimEvaluator_evaluateClaim(response)
    /\ evalInput' = [userId |-> userId, carDetails |-> carDetails, pdfData |-> pdfData,
                     policyDocuments |-> policies]
    /\ calls' = Inc(calls, "decision")
    /\ Throw("evaluation could not be logged")
    /\ UNCHANGED <<message, userId, limit, env, store, fileKeys, imgIdx, pdfIdx,
                   carDetails, pdfData, fileLog, vectorStore, policies, searches,
                   harnessVars>>

\* evaluateClaim: the decision engine on the records and the policies
EvaluateClaim ==
    /\ pc = "evaluate"
    /\ \E response \in PipelineEvalResponses :
         evaluation' = ClaimEvaluator_evaluateClaim(response)
    /\ evalInput' = [userId |-> userId,
                     carDetails |-> carDetails,
                     pdfData |-> [i \in 1..Len(pdfData) |->
                                    [text |-> pdfData[i].text,
                                     \* pdf.extractedFields || {}: an object is truthy
                                     extractedFields |-> pdfData[i].extractedFields]],
                     policyDocuments |-> policies]
    /\ calls' = Inc(calls, "decision")
    /\ pc' = "done"
    /\ UNCHANGED <<message, userId, limit, env, store, fileKeys, imgIdx, pdfIdx,
                   carDetails, pdfData, fileLog, vectorStore, policies, searches,
                   jobError, harnessVars>>

Next ==
    \/ StartJob
    \/ Step1_pullDataFromS3
    \/ ProcessImage
    \/ FinishImages
    \/ ProcessPDF
    \/ FinishPDFs
    \/ PrimarySearch
    \/ FallbackSearch
    \/ SkipFallback
    \/ EvaluateClaim

Spec == Init /\ [][Next]_vars

\* every step of the run is an awaited call that returns or fails, after
\* which the run goes on: a run that can take a step eventually takes one
FairSpec == Spec /\ WF_vars(Next)

-----------------------------------------------------------------------------
(* SpecRetrieve: retrievePolicies / the retrieve_policies tool's func, for   *)
(* every index of Stores, with and without a user identifier                 *)

MaxChunks == 3

ChunkKinds == {[source |-> PolicySource, userId |-> ""],
               [source |-> PolicySource, userId |-> "u1"],
               [source |-> "user_upload", userId |-> "u1"]}

Stores ==
    UNION {{[i \in 1..n |-> Chunk(i, k[i].source, k[i].userId)] : k \in [1..n -> ChunkKinds]} :
           n \in 0..MaxChunks}

InitRetrieve ==
    /\ pc = "retrieve"
    /\ message = EmptyObj
    /\ userId \in {JStr(""), JStr("u1")}
    /\ limit \in {2, SearchLimit}
    /\ env = RequiredEnv
    /\ store \in Stores
    /\ fileKeys = <<>>
    /\ imgIdx = 1
    /\ pdfIdx = 1
    /\ carDetails = <<>>
    /\ pdfData = <<>>
    /\ fileLog = <<>>
    /\ vectorStore = "unset"
    /\ policies = <<>>
    /\ searches = <<>>
    /\ evaluation = NoResult
    /\ jobError = NoError
    /\ calls = NoCalls
    /\ evalInput = NoInput
    /\ IdleEval
    /\ IdleBatch
    /\ IdleParse
    /\ IdleServices

NextRetrieve ==
    \/ PrimarySearch
    \/ FallbackSearch
    \/ SkipFallback

SpecRetrieve == InitRetrieve /\ [][NextRetrieve]_vars

-----------------------------------------------------------------------------
(* SpecList: S3Service.fetchFilesByUserId against a bucket holding the keys  *)
(* of several users, followed by the downloads of the two processors        *)

\* the characters of the user ids of the bucket
Chars(user) ==
    CASE user = "u1" -> <<"u", "1">>
      [] user = "u10" -> <<"u", "1", "0">>
      [] user = "u2" -> <<"u", "2">>

\* the key users/{userId}/{fileName} as the bucket stores it
KeyText(key) == <<"users", "/">> \o Chars(key.user) \o <<"/", key.name, ".", key.ext>>

\* variant: the prefix is not closed by a slash
Prefix_open(user) == <<"users", "/">> \o Chars(user)

\* fetchFilesByUserId: const prefix = `users/${userId}/`
Prefix(user) == <<"users", "/">> \o Chars(user) \o <<"/">>

\* ListObjectsV2 with Prefix: the keys that begin with the prefix
StartsWith(text, prefix) ==
    /\ Len(prefix) <= Len(text)
    /\ SubSeq(text, 1, Len(prefix)) = prefix

BucketKeys == {Key(u, "a", e) : u \in {"u1", "u10", "u2"}, e \in {"JPG", "pdf"}}

\* the arrangements of a set of keys in a list
Orders(keys) ==
    {f \in [1..Cardinality(keys) -> keys] :
        \A i, j \in 1..Cardinality(keys) : i # j => f[i] # f[j]}

InitList ==
    /\ pc = "list"
    /\ message = EmptyObj
    /\ userId \in {JStr("u1"), JStr("u10")}
    /\ limit = SearchLimit
    /\ env = RequiredEnv
    /\ store = <<>>
    /\ fileKeys = <<>>
    /\ imgIdx = 1
    /\ pdfIdx = 1
    /\ carDetails = <<>>
    /\ pdfData = <<>>
    /\ fileLog = <<>>
    /\ vectorStore = "unset"
    /\ policies = <<>>
    /\ searches = <<>>
    /\ evaluation = NoResult
    /\ jobError = NoError
    /\ calls = NoCalls
    /\ evalInput = NoInput
    /\ IdleEval
    /\ IdleBatch
    /\ IdleParse
    /\ IdleQdrant
    /\ IdlePoller
    /\ bucket \in SUBSET BucketKeys

\* step1_pullDataFromS3 with fetchFilesByUserId answered by the bucket
ListFiles ==
    /\ pc = "list"
    /\ calls' = Inc(calls, "list")
    /\ \/ /\ Throw(ListFailed)
          /\ UNCHANGED <<fileKeys, fileLog>>
       \/ \E files \in Orders({key \in bucket :
                                StartsWith(KeyText(key), Prefix(userId.s))}) :
            /\ fileKeys' = files
            /\ fileLog' = [i \in 1..Len(files) |-> NoEntry]
            /\ IF Len(files) = 0 THEN Throw(NoFilesFound)
               ELSE pc' = "images" /\ jobError' = jobError
    /\ UNCHANGED <<message, userId, limit, env, store, imgIdx, pdfIdx, carDetails,
                   pdfData, vectorStore, policies, searches, evaluation, evalInput, harnessVars>>

NextList ==
    \/ ListFiles
    \/ ProcessImage
    \/ FinishImages
    \/ ProcessPDF
    \/ FinishPDFs

SpecList == InitList /\ [][NextList]_vars

-----------------------------------------------------------------------------
(* SpecQdrant: one QdrantService instance after construction, with up to     *)
(* MaxCallers calls of searchPolicies / searchPoliciesWithFilter issued on   *)
(* it at any time                                                            *)

MaxCallers == 3

\* the state after `new QdrantService(...)`: the constructor has called
\* initializeVectorStore once and kept its promise in initPromise
InitQdrant ==
    /\ IdlePipeline
    /\ IdleEval
    /\ IdleBatch
    /\ IdleParse
    /\ IdleList
    /\ IdlePoller
    /\ initCount = 1
    /\ initPromise = "pending"
    /\ callers = [c \in 1..MaxCallers |->
                    [pc |-> "idle", store |-> "none", result |-> "none"]]

\* initializeVectorStore: fromExistingCollection resolves and vectorStore is
\* assigned, or it rejects and vectorStore stays null
InitializeSettles ==
    /\ initPromise = "pending"
    /\ \E ok \in BOOLEAN : initPromise' = IF ok THEN "resolved" ELSE "rejected"
    /\ UNCHANGED <<initCount, callers, pipelineVars, evalVars, batchVars, parseVars,
                   listVars, pollerVars>>

\* variant: a search that finds no vector store initializes one itself
CallSearch_lazyInit(c) ==
    /\ callers[c].pc = "idle"
    /\ callers' = [callers EXCEPT ![c].pc = "awaiting"]
    /\ initCount' = IF initPromise # "resolved" THEN initCount + 1 ELSE initCount
    /\ UNCHANGED <<initPromise, pipelineVars, evalVars, batchVars, parseVars,
                   listVars, pollerVars>>

\* a search is called and runs up to `await this.ensureInitialized()`
CallSearch(c) ==
    /\ callers[c].pc = "idle"
    /\ callers' = [callers EXCEPT ![c].pc = "awaiting"]
    /\ UNCHANGED <<initCount, initPromise, pipelineVars, evalVars, batchVars, parseVars,
                   listVars, pollerVars>>

\* initPromise has settled: the search resumes and calls
\* similaritySearchWithScore on the store, or (initPromise rejected) lands
\* in its catch block and returns []
StartQuery(c) ==
    /\ callers[c].pc = "awaiting"
    /\ initPromise # "pending"
    /\ callers' = [callers EXCEPT ![c] =
            IF initPromise = "resolved"
            THEN [pc |-> "querying", store |-> initPromise, result |-> "none"]
            ELSE [pc |-> "returned", store |-> "none", result |-> "empty"]]
    /\ UNCHANGED <<initCount, initPromise, pipelineVars, evalVars, batchVars, parseVars,
                   listVars, pollerVars>>

\* the query resolves and the search returns its documents, or it rejects
\* and the catch block returns []
FinishQuery(c) ==
    /\ callers[c].pc = "querying"
    /\ \E ok \in BOOLEAN :
         callers' = [callers EXCEPT ![c].pc = "returned",
                                    ![c].result = IF ok THEN "documents" ELSE "empty"]
    /\ UNCHANGED <<initCount, initPromise, pipelineVars, evalVars, batchVars, parseVars,
                   listVars, pollerVars>>

NextQdrant ==
    \/ InitializeSettles
    \/ \E c \in 1..MaxCallers : CallSearch(c)
    \/ \E c \in 1..MaxCallers : StartQuery(c)
    \/ \E c \in 1..MaxCallers : FinishQuery(c)

SpecQdrant == InitQdrant /\ [][NextQdrant]_vars

-----------------------------------------------------------------------------
(* SpecPoller: LocalSqsProcessor.start and the pollAndProcess invocations it *)
(* makes, against a queue of QueueSize messages.  A received message is      *)
(* hidden from other receivers until it is deleted                           *)

MaxCycles == 3
QueueSize == 2

\* a pollAndProcess invocation that has not returned or thrown
InFlightPcs == {"receive", "process", "delete"}

NewCycle == [pc |-> "receive", batch |-> {}]

\* start() has called pollAndProcess for the first time and awaits it
InitPoller ==
    /\ IdleJob
    /\ env = RequiredEnv
    /\ IdleEval
    /\ IdleBatch
    /\ IdleParse
    /\ IdleList
    /\ IdleQdrant
    /\ cycles = <<NewCycle>>
    /\ queue = [m \in 1..QueueSize |-> "visible"]
    /\ interval = "unset"

\* pollAndProcess: receiveMessage resolves with some of the visible messages
\* (none: the invocation returns), or rejects
Receive(c) ==
    /\ interval # "cleared"
    /\ cycles[c].pc = "receive"
    /\ \/ /\ cycles' = [cycles EXCEPT ![c].pc = "threw"]
          /\ queue' = queue
       \/ \E batch \in SUBSET {m \in 1..QueueSize : queue[m] = "visible"} :
            /\ cycles' = [cycles EXCEPT ![c] =
                    [pc |-> IF batch = {} THEN "done" ELSE "process", batch |-> batch]]
            /\ queue' = [m \in 1..QueueSize |-> IF m \in batch THEN "received" ELSE queue[m]]
    /\ UNCHANGED <<interval, pipelineVars, evalVars, batchVars, parseVars, listVars,
                   qdrantVars>>

\* pollAndProcess: the awaited processSqsMessage(event) returns
Process(c) ==
    /\ interval # "cleared"
    /\ cycles[c].pc = "process"
    /\ cycles' = [cycles EXCEPT ![c].pc = "delete"]
    /\ UNCHANGED <<queue, interval, pipelineVars, evalVars, batchVars, parseVars, listVars,
                   qdrantVars>>

\* pollAndProcess: one iteration of the delete loop; after the last message
\* the invocation returns; a failed deleteMessage is re-thrown
Delete(c) ==
    /\ interval # "cleared"
    /\ cycles[c].pc = "delete"
    /\ LET left == {m \in cycles[c].batch : queue[m] = "received"}
           next == CHOOSE m \in left : \A k \in left : m <= k
       IN  \/ /\ cycles' = [cycles EXCEPT ![c].pc = "threw"]
              /\ queue' = queue
           \/ /\ queue' = [queue EXCEPT ![next] = "deleted"]
              /\ cycles' = [cycles EXCEPT ![c].pc = IF left = {next} THEN "done" ELSE "delete"]
    /\ UNCHANGED <<interval, pipelineVars, evalVars, batchVars, parseVars, listVars,
                   qdrantVars>>

\* start(): the first pollAndProcess returned and setInterval registers the
\* timer (had it thrown, start() rejects and main() exits the process)
SetInterval ==
    /\ interval = "unset"
    /\ cycles[1].pc = "done"
    /\ interval' = "set"
    /\ UNCHANGED <<cycles, queue, pipelineVars, evalVars, batchVars, parseVars, listVars,
                   qdrantVars>>

\* pollInterval has elapsed: the timer's callback calls pollAndProcess
Tick ==
    /\ interval = "set"
    /\ Len(cycles) < MaxCycles
    /\ cycles' = Append(cycles, NewCycle)
    /\ UNCHANGED <<queue, interval, pipelineVars, evalVars, batchVars, parseVars, listVars,
                   qdrantVars>>

\* stop(), on SIGINT or SIGTERM: clearInterval and process.exit(0)
Stop ==
    /\ interval = "set"
    /\ interval' = "cleared"
    /\ UNCHANGED <<cycles, queue, pipelineVars, evalVars, batchVars, parseVars, listVars,
                   qdrantVars>>

NextPoller ==
    \/ \E c \in 1..Len(cycles) : Receive(c)
    \/ \E c \in 1..Len(cycles) : Process(c)
    \/ \E c \in 1..Len(cycles) : Delete(c)
    \/ SetInterval
    \/ Tick
    \/ Stop

SpecPoller == InitPoller /\ [][NextPoller]_vars

-----------------------------------------------------------------------------
(* SpecParse: the response parsing of the two extractors, applied to every   *)
(* payload of ParsePayloads in every shape of WrappedShapes and Shapes, and  *)
(* the truncation of the document text, for the lengths of TextLengths       *)

\* a member of the vision payload: a value, null, the empty string, or absent
CarValues == {JStr("red"), JNull, JStr(""), JUndef}

\* a parseable payload none of whose members the document schema names
UnknownOnly == MkObj([note |-> JStr("extra")])

ParsePayloads ==
    {FullCar, PartialCar, PoliceReport, MistypedReport, UnknownOnly, EmptyObj}
        \cup {MkObj(f) : f \in [CarKeys -> CarValues]}

ParseResponses ==
    {Response("ok", sh, o) : sh \in WrappedShapes \cup Shapes, o \in ParsePayloads}
        \cup {Response("error", "text", EmptyObj)}

\* extractFieldsWithLLM: text.substring(0, 15000) and the length compared
TextBudget == 15000

\* lengths of the text extractTextFromPDF returned, around the budget
TextLengths == {1, TextBudget - 1, TextBudget, TextBudget + 1, 2 * TextBudget}

\* variant: the marker is appended from the budget on
Truncate_markAtBudget(n) ==
    [chars |-> IF n < TextBudget THEN n ELSE TextBudget, marker |-> n >= TextBudget]

\* truncatedText: the first `chars` characters of a text of n characters, and
\* whether '\n\n... (content truncated)' is appended
Truncate(n) ==
    [chars |-> IF n < TextBudget THEN n ELSE TextBudget, marker |-> n > TextBudget]

InitParse ==
    /\ IdlePipeline
    /\ IdleEval
    /\ IdleBatch
    /\ IdleServices
    /\ extractorResponse \in ParseResponses
    /\ extracted = NoResult
    /\ docChars \in TextLengths
    /\ docChars # 1 => extractorResponse \in DocResponses
    /\ submitted = NoResult

\* what processImage and extractFieldsWithLLM return for the response
Extracted(response) ==
    [carDetails |-> ImageProcessor_processImage(response).details,
     extractedFields |-> PDFProcessor_extractFieldsWithLLM(response)]

\* processImage and extractFieldsWithLLM, the latter on a text of docChars
\* characters
ParseResponse ==
    /\ extracted = NoResult
    /\ submitted' = Truncate(docChars)
    /\ extracted' = Extracted(extractorResponse)
    /\ UNCHANGED <<extractorResponse, docChars, pipelineVars, evalVars,
                   batchVars, serviceVars>>

NextParse == ParseResponse

SpecParse == InitParse /\ [][NextParse]_vars

-----------------------------------------------------------------------------
(* SpecBatch: LocalSqsProcessor.pollAndProcess -> processSqsMessage ->       *)
(* processRecord -> processBusinessLogic, over every batch of up to          *)
(* MaxRecords messages.  processClaimChain is represented by the way it      *)
(* ends (Spec models its steps): it returns, or throws one of its two errors *)

MaxRecords == 2

\* record.body: text JSON.parse rejects, the text "null", a message object,
\* or an SNS notification whose Message is text (an object or unparseable)
Garbled == [kind |-> "garbled"]
NullBody == [kind |-> "null"]
Direct(msg) == [kind |-> "direct", message |-> msg]
Notification(inner) == [kind |-> "notification", inner |-> inner]

Bodies ==
    {Garbled, NullBody, Notification(Garbled)}
        \cup {Direct(m) : m \in Messages}
        \cup {Notification(Direct(m)) : m \in {EmptyObj, MkObj([userId |-> JStr("u2")])}}

\* Messages received from the queue: unique MessageIds, here the positions
Batches ==
    UNION {{[i \in 1..n |-> [messageId |-> i, body |-> b[i]]] : b \in [1..n -> Bodies]} :
           n \in 0..MaxRecords}

\* how processClaimChain ends: it returns (NoError) or throws
ChainOutcomes == {NoError, ListFailed, NoFilesFound}

BatchEnvs == {RequiredEnv, RequiredEnv \ {"QDRANT_URL"}}

\* variant: only message.userId is read
processBusinessLogic_userIdOnly(msg, environment, outcome) ==
    LET user == Get(msg, "userId")
    IN  IF Falsy(user) THEN [error |-> MissingUserId, chain |-> JUndef]
        ELSE IF ~getConfig(environment).ok THEN [error |-> ConfigInvalid, chain |-> JUndef]
        ELSE [error |-> outcome, chain |-> user]

\* chain: the userId processClaimChain was called with (JUndef: not called)
processBusinessLogic(msg, environment, outcome) ==
    LET user == IF Falsy(Get(msg, "userId")) THEN Get(msg, "user_id")
                ELSE Get(msg, "userId")
    IN  IF Falsy(user) THEN [error |-> MissingUserId, chain |-> JUndef]
        ELSE IF ~getConfig(environment).ok THEN [error |-> ConfigInvalid, chain |-> JUndef]
        ELSE [error |-> outcome, chain |-> user]

SyntaxError == "Unexpected token in JSON"
TypeError == "Cannot read properties of null"

\* variant: processRecord logs the error and returns
processRecord_swallow(record, environment, outcome) ==
    [error |-> NoError, chain |-> JUndef]

processRecord(record, environment, outcome) ==
    LET body == record.body
    IN  CASE body.kind = "garbled" -> [error |-> SyntaxError, chain |-> JUndef]
          [] body.kind = "null" -> [error |-> TypeError, chain |-> JUndef]
          [] body.kind = "notification" ->
                IF body.inner.kind = "garbled"
                THEN [error |-> SyntaxError, chain |-> JUndef]
                ELSE processBusinessLogic(body.inner.message, environment, outcome)
          [] body.kind = "direct" ->
                processBusinessLogic(body.message, environment, outcome)

InitBatch ==
    /\ IdleJob
    /\ IdleEval
    /\ IdleParse
    /\ IdleServices
    /\ env \in BatchEnvs
    /\ records = <<>>
    /\ recIdx = 1
    /\ batchItemFailures = <<>>
    /\ batchResponse = "none"
    /\ recordLog = <<>>
    /\ deleted = {}
    /\ delIdx = 1
    /\ batchPc = "poll"
    /\ inFlight = {}

\* pollAndProcess: receiveMessage and the event built from the Messages
ReceiveMessages ==
    /\ batchPc = "poll"
    /\ \E batch \in Batches :
         /\ records' = batch
         /\ batchPc' = IF Len(batch) = 0 THEN "polled" ELSE "process"
    /\ UNCHANGED <<recIdx, batchItemFailures, batchResponse, recordLog, deleted, delIdx,
                   inFlight, pipelineVars, evalVars, parseVars, serviceVars>>

\* variant: the loop calls processRecord and moves on without awaiting it
CallProcessRecord_noAwait ==
    /\ batchPc = "process"
    /\ recIdx <= Len(records)
    /\ inFlight' = inFlight \cup {recIdx}
    /\ recIdx' = recIdx + 1
    /\ batchPc' = IF recIdx < Len(records) THEN "process" ELSE "await"
    /\ UNCHANGED <<records, batchItemFailures, batchResponse, recordLog, deleted, delIdx,
                   pipelineVars, evalVars, parseVars, serviceVars>>

\* processSqsMessage: the loop over event.Records calls processRecord(record)
\* and is suspended by `await` until the call settles
CallProcessRecord ==
    /\ batchPc = "process"
    /\ recIdx <= Len(records)
    /\ inFlight' = inFlight \cup {recIdx}
    /\ batchPc' = "await"
    /\ UNCHANGED <<records, recIdx, batchItemFailures, batchResponse, recordLog, deleted,
                   delIdx, pipelineVars, evalVars, parseVars, serviceVars>>

\* processSqsMessage: an awaited processRecord settles; the catch block pushes
\* the messageId of a record whose processing threw; the loop moves on
ProcessRecord ==
    /\ batchPc = "await"
    /\ \E i \in inFlight, outcome \in ChainOutcomes :
         LET r == processRecord(records[i], env, outcome)
         IN  /\ recordLog' = Append(recordLog,
                    [outcome |-> outcome, error |-> r.error, chain |-> r.chain])
             /\ batchItemFailures' =
                    IF r.error # NoError
                    THEN Append(batchItemFailures, records[i].messageId)
                    ELSE batchItemFailures
             /\ inFlight' = inFlight \ {i}
    /\ recIdx' = recIdx + 1
    /\ batchPc' = "process"
    /\ UNCHANGED <<records, batchResponse, deleted, delIdx,
                   pipelineVars, evalVars, parseVars, serviceVars>>

\* processSqsMessage returns {batchItemFailures} or nothing
ReturnBatchResponse ==
    /\ batchPc = "process"
    /\ recIdx > Len(records)
    /\ batchResponse' = IF Len(batchItemFailures) > 0 THEN "batchItemFailures" ELSE "void"
    /\ batchPc' = "delete"
    /\ UNCHANGED <<records, recIdx, batchItemFailures, recordLog, deleted, delIdx,
                   inFlight, pipelineVars, evalVars, parseVars, serviceVars>>

\* pollAndProcess: one iteration of the loop deleting the received Messages
\* (a failed deleteMessage is re-thrown out of pollAndProcess)
DeleteMessage ==
    /\ batchPc = "delete"
    /\ delIdx <= Len(records)
    /\ \E ok \in BOOLEAN :
         IF ok
         THEN /\ deleted' = deleted \cup {records[delIdx].messageId}
              /\ delIdx' = delIdx + 1
              /\ batchPc' = batchPc
         ELSE /\ batchPc' = "threw"
              /\ UNCHANGED <<deleted, delIdx>>
    /\ UNCHANGED <<records, recIdx, batchItemFailures, batchResponse, recordLog,
                   inFlight, pipelineVars, evalVars, parseVars, serviceVars>>

FinishPoll ==
    /\ batchPc = "delete"
    /\ delIdx > Len(records)
    /\ batchPc' = "polled"
    /\ UNCHANGED <<records, recIdx, batchItemFailures, batchResponse, recordLog,
                   deleted, delIdx, inFlight, pipelineVars, evalVars, parseVars,
                   serviceVars>>

NextBatch ==
    \/ ReceiveMessages
    \/ CallProcessRecord
    \/ ProcessRecord
    \/ ReturnBatchResponse
    \/ DeleteMessage
    \/ FinishPoll

SpecBatch == InitBatch /\ [][NextBatch]_vars

-----------------------------------------------------------------------------
(* Claims about the Claim Decision Engine, checked under SpecEval *)

\* the object the text of a response carries, read off how it was composed
CarriedPayload(r) == IF r.shape = "empty" THEN EmptyObj ELSE r.obj

ModelCallFailed(r) == r.call = "error"
NoJsonObject(r) == r.call = "ok" /\ r.shape \in {"text", "unclosed"}
CannotBeParsed(r) == r.call = "ok" /\ r.shape = "garbled"
CarriesObject(r) == r.call = "ok" /\ r.shape \in ParseableShapes \cup {"empty"}

\* the decision payload has the types the data model gives a ClaimDecision
\* (confidence any number: the range is a matter of clamping)
WellTypedPayload(o) ==
    /\ Get(o, "decision") \in {JStr("Approved"), JStr("Rejected")}
    /\ Get(o, "confidence").t = "number"
    /\ Get(o, "reasoning").t = "string"
    /\ IsStringArray(Get(o, "policyReferences"))
    /\ IsStringArray(Get(o, "keyFactors"))

IsFailClosedDefault(res) ==
    /\ res.decision = JStr("Rejected")
    /\ res.confidence = JNum(0)
    /\ res.policyReferences = JArr(<<>>)
    /\ res.keyFactors = JArr(<<JStr("Evaluation error occurred")>>)

\* C2: the decision engine is fail-closed. A failed model call, a response
\* with no JSON object, an unparseable one or one whose object does not have
\* the schema's types yields Rejected, confidence 0, no policy references and
\* keyFactors = ["Evaluation error occurred"]; Approved is returned only for a
\* response that carried a well-typed object whose decision is Approved.
C2_FailClosed ==
    evalPc = "returned" =>
        /\ ( \/ ModelCallFailed(llmResponse)
             \/ NoJsonObject(llmResponse)
             \/ CannotBeParsed(llmResponse)
             \/ /\ CarriesObject(llmResponse)
                /\ ~WellTypedPayload(CarriedPayload(llmResponse)) )
           => IsFailClosedDefault(evalResult)
        /\ evalResult.decision = JStr("Approved")
           => /\ CarriesObject(llmResponse)
              /\ WellTypedPayload(CarriedPayload(llmResponse))
              /\ Get(CarriedPayload(llmResponse), "decision") = JStr("Approved")

\* C2 witness: plain text around nothing, composed with an Approved payload
\* in mind, came back as the fail-closed default
C2_Witness ==
    /\ evalPc = "returned"
    /\ llmResponse.call = "ok"
    /\ llmResponse.shape = "text"
    /\ Get(llmResponse.obj, "decision") = JStr("Approved")
    /\ IsFailClosedDefault(evalResult)

\* C3: every returned ClaimDecision is well-formed: exactly the five fields,
\* decision Approved or Rejected, confidence a number in [0,100], reasoning a
\* non-empty string, policyReferences and keyFactors lists of strings.
C3_WellFormedDecision ==
    evalPc = "returned" =>
        /\ DOMAIN evalResult = SchemaKeys
        /\ evalResult.decision \in {JStr("Approved"), JStr("Rejected")}
        /\ evalResult.confidence.t = "number"
        /\ evalResult.confidence.n >= 0
        /\ evalResult.confidence.n <= 100
        /\ evalResult.reasoning.t = "string"
        /\ evalResult.reasoning.s # ""
        /\ IsStringArray(evalResult.policyReferences)
        /\ IsStringArray(evalResult.keyFactors)

\* C3 witness: a fenced, valid Approved payload with empty reasoning and an
\* unknown extra key was returned as an Approved decision
C3_Witness ==
    /\ evalPc = "returned"
    /\ llmResponse.shape = "fenced"
    /\ Get(llmResponse.obj, "reasoning") = JStr("")
    /\ Get(llmResponse.obj, "note") = JStr("extra")
    /\ evalResult.decision = JStr("Approved")

\* C4 (as claimed): a response that is otherwise a valid decision and whose
\* raw confidence is outside [0,100] is stored with the confidence clamped to
\* the nearest bound: above 100 as 100, below 0 as 0.
C4_ClampedToNearestBound ==
    LET raw == Get(CarriedPayload(llmResponse), "confidence")
    IN  ( /\ evalPc = "returned"
          /\ CarriesObject(llmResponse)
          /\ WellTypedPayload(CarriedPayload(llmResponse))
          /\ (raw.n < 0 \/ raw.n > 100) )
        => evalResult.confidence = JNum(IF raw.n > 100 THEN 100 ELSE 0)

-----------------------------------------------------------------------------
(* Claims about the job run, checked under Spec *)

AfterExtraction == pc \in {"retrieve", "fallback", "evaluate", "done"}

ImagePositions == {i \in 1..Len(fileKeys) : IsImageKey(fileKeys[i])}
PdfPositions == {i \in 1..Len(fileKeys) : IsPdfKey(fileKeys[i])}

\* the listing came back (no error) with zero artifacts
ZeroArtifactJob == calls.list = 1 /\ jobError # ListFailed /\ fileKeys = <<>>

\* C1: a job whose listing returns zero artifacts ends in the fatal error
\* "No files found" and makes no download, no extraction-model call, no
\* policy search and no decision-model call, at any time.
C1_ZeroArtifactsFatal ==
    ZeroArtifactJob =>
        /\ pc = "failed"
        /\ jobError = NoFilesFound
        /\ calls.download = 0
        /\ calls.contentType = 0
        /\ calls.vision = 0
        /\ calls.docModel = 0
        /\ calls.search = 0
        /\ calls.decision = 0
        /\ searches = <<>>
        /\ evaluation = NoResult

\* C1 witness: the listing returned no artifact and the job failed
C1_Witness == ZeroArtifactJob /\ pc = "failed" /\ calls.list = 1

\* an extraction model's response that is an error of the extraction: the call
\* failed, or the text carries no JSON object, or one that cannot be parsed
ExtractionError(r) == r.call = "error" \/ r.shape \notin ParseableShapes

EmptyDocumentRecord == [text |-> "", extractedFields |-> EmptyObj]

\* C5 (as claimed): any extraction error of one artifact - model call
\* failure, malformed response, schema mismatch - is converted into an empty
\* record for that artifact.
C5_ErrorYieldsEmptyRecord ==
    \A i \in 1..Len(fileLog) :
        LET e == fileLog[i]
        IN  (e.input # NoResponse /\ e.rec # 0) =>
              /\ (i \in ImagePositions /\ ExtractionError(e.input))
                    => carDetails[e.rec] = EmptyCarDetails
              /\ (i \in PdfPositions
                    /\ (ExtractionError(e.input) \/ e.input.obj = MistypedReport))
                    => pdfData[e.rec] = EmptyDocumentRecord

\* C5 (amended): neither extractor re-throws, so every artifact whose
\* download succeeded gets a record and no job fails once artifacts were
\* listed. A vision extraction error yields the all-null record; a document
\* extraction error yields empty extractedFields with the extracted text
\* kept; a schema-mismatching document payload is kept as parsed; a document
\* without text yields the empty record; and the record of every artifact
\* whose extraction succeeded is the one its own response determines,
\* whatever happened to the other artifacts.
C5_ExtractionErrorsLocal ==
    /\ Len(fileKeys) > 0 => pc # "failed"
    /\ \A i \in 1..Len(fileLog) :
         LET e == fileLog[i]
         IN  /\ (e.download = "ok" /\ i \in ImagePositions \cup PdfPositions)
                    => e.rec # 0
             /\ (i \in ImagePositions /\ e.input # NoResponse) =>
                    /\ ExtractionError(e.input)
                          => carDetails[e.rec] = EmptyCarDetails
                    /\ (~ExtractionError(e.input) /\ e.input.obj = FullCar)
                          => carDetails[e.rec] = FullCar
             /\ (i \in PdfPositions /\ e.download = "ok") =>
                    /\ e.input = NoResponse => pdfData[e.rec] = EmptyDocumentRecord
                    /\ e.input # NoResponse => pdfData[e.rec].text = e.text
                    /\ (e.input # NoResponse /\ ExtractionError(e.input))
                          => pdfData[e.rec].extractedFields = EmptyObj
                    /\ (e.input # NoResponse /\ ~ExtractionError(e.input)
                          /\ e.input.obj = MistypedReport)
                          => pdfData[e.rec].extractedFields = MistypedReport
                    /\ (e.input # NoResponse /\ ~ExtractionError(e.input)
                          /\ e.input.obj = PoliceReport)
                          => pdfData[e.rec].extractedFields =
                                MkObj([incidentDate |-> JStr("2025-11-05"),
                                       vehicleNumber |-> JStr("KA01AB1234"),
                                       vehicleColor |-> JNull])

\* C5 witness: one image whose extraction failed and one document whose
\* extraction succeeded reached the decision as one all-null VisionRecord and
\* one populated DocumentRecord
C5_Witness ==
    /\ pc = "done"
    /\ Len(fileKeys) = 2
    /\ \E i \in ImagePositions :
         /\ fileLog[i].input # NoResponse
         /\ fileLog[i].input.call = "error"
         /\ carDetails = <<EmptyCarDetails>>
    /\ \E j \in PdfPositions :
         /\ fileLog[j].input # NoResponse
         /\ ~ExtractionError(fileLog[j].input)
         /\ Len(pdfData) = 1
         /\ pdfData[1].text # ""
         /\ "incidentDate" \in DOMAIN pdfData[1].extractedFields

\* C6 (as claimed): after extraction there is one VisionRecord per image
\* artifact and one DocumentRecord per document artifact.
C6_OneRecordPerArtifact ==
    AfterExtraction =>
        /\ Len(carDetails) = Cardinality(ImagePositions)
        /\ Len(pdfData) = Cardinality(PdfPositions)

Downloaded(positions) == {i \in positions : fileLog[i].download = "ok"}

\* C6 (amended): after extraction there is exactly one record per supported
\* artifact whose download succeeded; an artifact whose download failed
\* contributes no record, and neither does an unsupported one.
C6_OneRecordPerDownloadedArtifact ==
    AfterExtraction =>
        /\ Len(carDetails) = Cardinality(Downloaded(ImagePositions))
        /\ Len(pdfData) = Cardinality(Downloaded(PdfPositions))
        /\ \A i \in 1..Len(fileLog) :
             /\ i \in Downloaded(ImagePositions) => fileLog[i].rec \in 1..Len(carDetails)
             /\ i \in Downloaded(PdfPositions) => fileLog[i].rec \in 1..Len(pdfData)
             /\ i \notin Downloaded(ImagePositions \cup PdfPositions) => fileLog[i].rec = 0
        /\ \A i, j \in Downloaded(ImagePositions) :
             fileLog[i].rec = fileLog[j].rec => i = j
        /\ \A i, j \in Downloaded(PdfPositions) :
             fileLog[i].rec = fileLog[j].rec => i = j

\* C6 witness: an image whose download failed left no record while the other
\* image of the job has one
C6_Witness ==
    /\ AfterExtraction
    /\ Cardinality(ImagePositions) = 2
    /\ Len(carDetails) = 1
    /\ \E i \in ImagePositions : fileLog[i].download = "error" /\ fileLog[i].rec = 0

AllSearchesFailed == \A k \in 1..Len(searches) : searches[k].failed

\* C9: a policy search that fails (the index connection could not be
\* initialized, or the request failed) reports zero chunks and throws nothing:
\* the job is never aborted once a search was issued, the run goes on to the
\* decision engine, and when every search failed the decision is made on an
\* empty policy set.
C9_SearchErrorsSwallowed ==
    /\ \A k \in 1..Len(searches) : searches[k].failed => searches[k].result = <<>>
    /\ searches # <<>> => pc # "failed"
    /\ pc \in {"retrieve", "fallback", "evaluate"} => ENABLED Next
    /\ pc = "done" => calls.decision = 1 /\ evaluation # NoResult
    /\ (AfterExtraction /\ pc # "retrieve" /\ AllSearchesFailed) => policies = <<>>

\* C9 witness: the connection could not be initialized, both searches failed
\* and the decision was still made, on no policy
C9_Witness ==
    /\ pc = "done"
    /\ vectorStore = "failed"
    /\ Len(searches) = 2
    /\ AllSearchesFailed
    /\ policies = <<>>
    /\ evaluation # NoResult

\* C10 (as claimed): a job run ends with an error only for a missing user
\* identifier or for zero artifacts found.
C10_OnlyTwoFatalErrors ==
    pc = "failed" => jobError \in {MissingUserId, NoFilesFound}

\* C10 (amended): a job run ends with an error only for a missing user
\* identifier, an invalid configuration, a failed artifact listing or zero
\* artifacts found - all before any artifact is handled; once the listing
\* returned artifacts every failure (download, extraction, retrieval,
\* decision) is recovered and the run ends with a decision.
C10_FatalErrorsOnly ==
    /\ pc = "failed" <=> jobError # NoError
    /\ pc = "failed" =>
         /\ jobError \in {MissingUserId, ConfigInvalid, ListFailed, NoFilesFound}
         /\ fileKeys = <<>>
         /\ calls.download = 0
         /\ calls.search = 0
         /\ calls.decision = 0
    /\ Len(fileKeys) > 0 => (pc # "failed" /\ (pc = "done" \/ ENABLED Next))
    /\ pc = "done" => evaluation.decision \in {JStr("Approved"), JStr("Rejected")}

\* C10 witness: a run in which a download, an extraction, both policy
\* searches and the decision call all failed ended with a decision
C10_Witness ==
    /\ pc = "done"
    /\ \E i \in 1..Len(fileLog) : fileLog[i].download = "error"
    /\ \E i \in 1..Len(fileLog) :
         fileLog[i].input # NoResponse /\ fileLog[i].input.call = "error"
    /\ Len(searches) = 2
    /\ AllSearchesFailed
    /\ IsFailClosedDefault(evaluation)

-----------------------------------------------------------------------------
(* Claims about policy retrieval, checked under SpecRetrieve *)

\* C7: the fallback search is issued exactly when the primary search returned
\* zero chunks and a user identifier is available. With one or more primary
\* chunks - even fewer than limit - the final set is the primary results and
\* no second search is made; with zero primary chunks and a fallback, the
\* final set is the fallback's results.
C7_FallbackOnlyWhenEmpty ==
    pc = "evaluate" =>
        /\ Len(searches) \in {1, 2}
        /\ searches[1].op = "searchPolicies"
        /\ Len(searches) = 2 <=> (Len(searches[1].result) = 0 /\ userId # JStr(""))
        /\ Len(searches) = 1 => policies = searches[1].result
        /\ Len(searches) = 2 =>
             /\ searches[2].op = "searchPoliciesWithFilter"
             /\ policies = searches[2].result

\* C7 witness: the primary search returned 0 chunks, the fallback 3, and the
\* final set is those 3
C7_Witness ==
    /\ pc = "evaluate"
    /\ Len(searches) = 2
    /\ Len(searches[1].result) = 0
    /\ Len(searches[2].result) = 3
    /\ policies = searches[2].result

\* C8 (as claimed): the fallback filter widens the primary one - every chunk
\* of the index that matches the primary filter matches the fallback filter.
C8_FallbackWidens ==
    Len(searches) = 2 =>
        \A i \in 1..Len(store) :
            Matches(store[i], searches[1].must) => Matches(store[i], searches[2].must)

-----------------------------------------------------------------------------
(* Claims about the order and the number of the steps of a job run *)

ExtractionStarted ==
    calls.download > 0 \/ calls.contentType > 0 \/ calls.vision > 0 \/ calls.docModel > 0

ExtractionComplete ==
    /\ imgIdx = Len(imageFiles) + 1
    /\ pdfIdx = Len(pdfFiles) + 1
    /\ \A i \in ImagePositions \cup PdfPositions : fileLog[i].download # "none"

\* retrievePolicies has returned: the primary search was made, and the
\* fallback too when the primary search came back empty
RetrievalComplete ==
    /\ Len(searches) = IF searches # <<>> /\ searches[1].result = <<>> THEN 2 ELSE 1
    /\ policies = IF Len(searches) = 2 THEN searches[1].result \o searches[2].result
                  ELSE searches[1].result

\* C13: the stages of a job run are strictly ordered: no download or
\* extraction before the listing has returned; no policy search before every
\* supported artifact has been through extraction; the decision engine is
\* called only after retrievePolicies returned, with exactly its chunk set.
C13_StagesOrdered ==
    /\ ExtractionStarted => calls.list = 1 /\ pc \notin {"start", "list"}
    /\ pc \in {"start", "list"} => ~ExtractionStarted /\ searches = <<>>
    /\ pc \in {"images", "pdfs"} => searches = <<>> /\ calls.decision = 0
    /\ searches # <<>> => ExtractionComplete
    /\ pc \in {"retrieve", "fallback", "evaluate"} => calls.decision = 0 /\ evalInput = NoInput
    /\ calls.decision > 0 =>
          /\ ExtractionComplete
          /\ RetrievalComplete
          /\ evalInput # NoInput
          /\ evalInput.policyDocuments = policies
          /\ evalInput.carDetails = carDetails
          /\ Len(evalInput.pdfData) = Len(pdfData)

\* a run over an image and a document, two searches, the decision made on
\* the chunks the fallback returned
C13_Witness ==
    /\ pc = "done"
    /\ calls.vision = 1
    /\ calls.docModel = 1
    /\ Len(searches) = 2
    /\ Len(policies) > 0
    /\ evalInput # NoInput
    /\ evalInput.policyDocuments = policies

Terminated == pc \in {"done", "failed"}

\* C14: every job run terminates, in exactly one of two ways: with a
\* decision, made once and as the last step of the run, or with an error
\* thrown and no decision; until then there is neither.
C14_TerminatesWithOneOutcome ==
    /\ <>Terminated
    /\ [](Terminated => ~ENABLED Next)
    /\ [](pc = "done" => evaluation # NoResult /\ jobError = NoError /\ calls.decision = 1)
    /\ [](pc = "failed" => evaluation = NoResult /\ jobError # NoError /\ calls.decision = 0)
    /\ [](~Terminated => evaluation = NoResult /\ jobError = NoError /\ calls.decision = 0)

\* a run that ended with a decision after a failed download and a failed search
C14_Witness ==
    /\ pc = "done"
    /\ evaluation # NoResult
    /\ jobError = NoError
    /\ \E i \in 1..Len(fileLog) : fileLog[i].download = "error"
    /\ \E k \in 1..Len(searches) : searches[k].failed

\* C15 (as claimed): no extraction waits for another extraction to finish:
\* while the extraction stage runs, a document that has not been through
\* extraction can be taken up, whether or not the images are finished.
C15_NoExtractionWaits ==
    (pc \in {"images", "pdfs"} /\ pdfIdx <= Len(pdfFiles)) =>
        ENABLED ProcessPDF

\* C16 (as claimed): policy retrieval is agent-mediated: the Policy
\* Retriever is searched only for an invocation a Retrieval-Decision Agent
\* emitted, so a run that searched has consulted the agent.
C16_RetrievalIsAgentMediated ==
    searches # <<>> => calls.agent > 0

Visited(positions) == {i \in positions : fileLog[i].download # "none"}

\* C17: within one job run no external operation is issued twice for the
\* same target, whether or not it failed: one listing, one download per
\* supported artifact taken up, at most one content-type lookup and one
\* extraction-model call per downloaded artifact, one searchPolicies and at
\* most one searchPoliciesWithFilter, one decision-model call.
C17_NoInternalRetry ==
    /\ calls.list <= 1
    /\ calls.download = Cardinality(Visited(ImagePositions \cup PdfPositions))
    /\ calls.contentType <= Cardinality(Downloaded(ImagePositions))
    /\ calls.vision =
          Cardinality({i \in Downloaded(ImagePositions) : fileLog[i].input # NoResponse})
    /\ calls.docModel =
          Cardinality({i \in Downloaded(PdfPositions) : fileLog[i].input # NoResponse})
    /\ Len(searches) <= 2
    /\ \A j, k \in 1..Len(searches) : searches[j].op = searches[k].op => j = k
    /\ calls.search <= Len(searches)
    /\ calls.decision <= 1
    /\ (pc = "failed" /\ jobError = ListFailed) => calls.list = 1 /\ ~ExtractionStarted

\* a run that ended after a failed download, a failed extraction-model call
\* and a failed search, each made once
C17_Witness ==
    /\ Terminated
    /\ \E i \in 1..Len(fileLog) : fileLog[i].download = "error"
    /\ \E i \in 1..Len(fileLog) : fileLog[i].input.call = "error"
    /\ \E k \in 1..Len(searches) : searches[k].failed
    /\ calls.download = 2

-----------------------------------------------------------------------------
(* Claims about response parsing and repeated evaluation *)

\* C18 (as claimed): a response that wraps the JSON object P in code fences
\* and/or prose, the prose possibly holding braces of its own, is parsed by
\* both extractors to the same result as P alone.
C18_WrappingIgnored ==
    (extracted # NoResult /\ extractorResponse.shape \in WrappedShapes) =>
        extracted = Extracted(Response("ok", "bare", extractorResponse.obj))

-----------------------------------------------------------------------------
(* Claims about batches of messages, checked under SpecBatch *)

\* the message a record body carries (EmptyObj when it carries none)
MessageOf(body) ==
    CASE body.kind = "direct" -> body.message
      [] body.kind = "notification" /\ body.inner.kind = "direct" -> body.inner.message
      [] OTHER -> EmptyObj

Unparseable(body) ==
    \/ body.kind \in {"garbled", "null"}
    \/ body.kind = "notification" /\ body.inner.kind = "garbled"

\* the message names no user: neither member is present with a non-empty value
NamesNoUser(msg) ==
    /\ Get(msg, "userId") \in {JUndef, JStr("")}
    /\ Get(msg, "user_id") \in {JUndef, JStr("")}

\* read off the inputs: processing record i raises an error
RaisesError(i) ==
    \/ Unparseable(records[i].body)
    \/ NamesNoUser(MessageOf(records[i].body))
    \/ ~(RequiredEnv \subseteq env)
    \/ recordLog[i].outcome # NoError

\* the messageIds of the records among the first n that raise an error, in order
FailedIds(n) ==
    LET F[i \in 0..n] ==
            IF i = 0 THEN <<>>
            ELSE IF RaisesError(i) THEN Append(F[i - 1], records[i].messageId)
            ELSE F[i - 1]
    IN  F[n]

\* C11: processSqsMessage processes every record of the batch whatever
\* happened to earlier ones, and when it returns batchItemFailures holds
\* exactly the messageIds of the records whose processing raised an error,
\* each once; it returns no failure list when no record failed.
C11_FailuresReportedIndividually ==
    /\ Len(recordLog) <= Len(records)
    /\ batchItemFailures = FailedIds(Len(recordLog))
    /\ batchResponse # "none" =>
          /\ Len(recordLog) = Len(records)
          /\ batchResponse = "void" <=> FailedIds(Len(records)) = <<>>

\* a batch whose first record failed and whose second succeeded has returned
C11_Witness ==
    /\ batchResponse = "batchItemFailures"
    /\ Len(records) = 2
    /\ RaisesError(1)
    /\ ~RaisesError(2)
    /\ batchItemFailures = <<records[1].messageId>>

\* C12: a message naming no user (neither userId nor user_id, or an empty
\* value) fails with the validation error, is reported in batchItemFailures
\* and processClaimChain (the only place that calls the artifact store, the
\* models and the retriever) is not entered for it; a message carrying
\* user_id instead of userId is processed for that identifier.
C12_MissingUserIdIsPerMessage ==
    \A i \in 1..Len(recordLog) :
        LET body == records[i].body
            msg == MessageOf(body)
        IN  /\ (~Unparseable(body) /\ NamesNoUser(msg)) =>
                  /\ recordLog[i].error = MissingUserId
                  /\ recordLog[i].chain = JUndef
                  /\ \E k \in 1..Len(batchItemFailures) :
                        batchItemFailures[k] = records[i].messageId
            /\ (/\ ~Unparseable(body)
                /\ Get(msg, "userId") = JUndef
                /\ ~Falsy(Get(msg, "user_id"))
                /\ RequiredEnv \subseteq env) =>
                  /\ recordLog[i].chain = Get(msg, "user_id")
                  /\ recordLog[i].error = recordLog[i].outcome

\* a batch of a message without a user and a message with user_id, the
\* second processed to the end
C12_Witness ==
    /\ batchResponse = "batchItemFailures"
    /\ Len(records) = 2
    /\ records[1].body = Direct(EmptyObj)
    /\ records[2].body = Direct(MkObj([user_id |-> JStr("u1")]))
    /\ recordLog[1].error = MissingUserId
    /\ recordLog[2].chain = JStr("u1")
    /\ recordLog[2].error = NoError
    /\ batchItemFailures = <<records[1].messageId>>

\* C20 (as claimed): the poller deletes a message only if its processing
\* succeeded, so a failed message stays in the queue for redelivery.
C20_DeletedOnlyIfProcessed ==
    \A i \in 1..Len(recordLog) :
        records[i].messageId \in deleted => recordLog[i].error = NoError

\* neither filter of processImages / processPDFs takes the key at position i
Unsupported(i) == ~IsImageKey(fileKeys[i]) /\ ~IsPdfKey(fileKeys[i])

OnlyUnsupported == Len(fileKeys) > 0 /\ \A i \in 1..Len(fileKeys) : Unsupported(i)

\* C21: an artifact that is neither an image nor a document is never downloaded
\* or submitted to an extractor, no artifact goes to both extractors, and a job
\* whose listing holds only such artifacts is not failed by them: it reaches
\* the decision engine with no vision record and no document record
C21_UnsupportedExcluded ==
    /\ \A i \in 1..Len(fileKeys) : Unsupported(i) => fileLog[i] = NoEntry
    /\ \A i \in 1..Len(fileKeys), j \in 1..Len(imageFiles), k \in 1..Len(pdfFiles) :
         ~(imageFiles[j] = i /\ pdfFiles[k] = i)
    /\ OnlyUnsupported =>
         /\ calls.download = 0 /\ calls.contentType = 0
         /\ calls.vision = 0 /\ calls.docModel = 0
         /\ pc # "failed" /\ jobError = NoError
         /\ calls.decision > 0 =>
              evalInput # NoInput /\ evalInput.carDetails = <<>> /\ evalInput.pdfData = <<>>

\* a job whose two artifacts are both unsupported got its decision
C21_Witness ==
    /\ pc = "done"
    /\ Len(fileKeys) = 2
    /\ OnlyUnsupported
    /\ evalInput.carDetails = <<>>
    /\ evalInput.pdfData = <<>>

-----------------------------------------------------------------------------
(* Claims about a failed primary search, checked under SpecRetrieve *)

\* C28: a primary search that fails with an error leaves the same state as one
\* that found nothing: no chunk and no error. With a user identifier the
\* fallback search is then issued and its results are the final chunk set;
\* without one the final chunk set is empty
C28_FailedSearchTriggersFallback ==
    (Len(searches) >= 1 /\ searches[1].failed) =>
        /\ searches[1].result = <<>>
        /\ jobError = NoError
        /\ pc = "fallback" => policies = <<>>
        /\ pc = "evaluate" =>
             IF Falsy(userId)
             THEN Len(searches) = 1 /\ policies = <<>>
             ELSE /\ Len(searches) = 2
                  /\ searches[2].op = "searchPoliciesWithFilter"
                  /\ policies = searches[2].result

\* the primary search failed and the fallback's chunks are the final set
C28_Witness ==
    /\ pc = "evaluate"
    /\ Len(searches) = 2
    /\ searches[1].failed
    /\ ~searches[2].failed
    /\ Len(searches[2].result) > 0
    /\ policies = searches[2].result

-----------------------------------------------------------------------------
(* Claims about configuration loading, checked under Spec *)

\* C27 (as claimed): with exactly the variables of the deployment list set, a
\* message with a valid userId passes configuration loading and reaches the
\* listing of the artifacts; configuration loading fails a job only when a
\* variable of that list is missing
C27_DeploymentEnvSuffices ==
    /\ (env = DeploymentEnv /\ pc # "start" /\ ~Falsy(userId)) =>
           /\ jobError # ConfigInvalid
           /\ pc # "failed" \/ calls.list > 0
    /\ jobError = ConfigInvalid => ~(DeploymentEnv \subseteq env)

-----------------------------------------------------------------------------
(* Claims about the two extractors, checked under SpecParse *)

\* the {...} span of the response as the Document Extractor sees it, parsed
DocParsed ==
    LET m == JsonMatch(StripFences(extractorResponse.content))
        p == JsonParse(m.span, extractorResponse.obj)
    IN  [ok |-> extractorResponse.call = "ok" /\ m.found /\ p.ok, value |-> p.value]

\* the members of PDFExtractionSchema
PdfSchemaKeys == PdfStringKeys \cup {"additionalInfo"}

\* C23 (as claimed): a parsed payload that fails validation is returned
\* unchanged, and only a response with no {...} span or with an unparseable
\* span yields empty extracted fields (for a payload that is not itself empty)
C23_OnlyUnparsedIsEmpty ==
    (extracted # NoResult /\ extractorResponse.call = "ok") =>
        /\ (DocParsed.ok /\ ~PDFExtractionSchema_parse(DocParsed.value).ok) =>
               extracted.extractedFields = DocParsed.value
        /\ (extracted.extractedFields = EmptyObj /\ DocParsed.value # EmptyObj) =>
               ~DocParsed.ok

\* C23 (amended): a parsed payload that fails validation is returned
\* unchanged; one that passes is returned without the members the schema does
\* not name; the extracted fields are empty exactly when there is no parsed
\* payload or the payload has no member the schema names
C23_InvalidPayloadKept ==
    extracted # NoResult =>
        /\ (DocParsed.ok /\ ~PDFExtractionSchema_parse(DocParsed.value).ok) =>
               /\ extracted.extractedFields = DocParsed.value
               /\ extracted.extractedFields # EmptyObj
        /\ (DocParsed.ok /\ PDFExtractionSchema_parse(DocParsed.value).ok) =>
               /\ DOMAIN extracted.extractedFields = DOMAIN DocParsed.value \cap PdfSchemaKeys
               /\ \A k \in DOMAIN extracted.extractedFields :
                    extracted.extractedFields[k] = DocParsed.value[k]
        /\ extracted.extractedFields = EmptyObj <=>
               (~DocParsed.ok \/ DOMAIN DocParsed.value \cap PdfSchemaKeys = {})

\* a payload whose vehicleYear is a number came back as the extracted fields
C23_Witness ==
    /\ extracted # NoResult
    /\ extractorResponse = Response("ok", "fenced", MistypedReport)
    /\ extracted.extractedFields = MistypedReport

\* C24: the text submitted to the extraction model is the first 15,000
\* characters of the document text, followed by the truncation marker if and
\* only if the text is longer than 15,000 characters; a shorter text is
\* submitted whole and without a marker
C24_TextCappedAtBudget ==
    submitted # NoResult =>
        /\ docChars <= 15000 => submitted = [chars |-> docChars, marker |-> FALSE]
        /\ docChars > 15000 => submitted = [chars |-> 15000, marker |-> TRUE]

\* a text of 15,001 characters was cut to 15,000 and marked
C24_Witness ==
    /\ docChars = 15001
    /\ submitted = [chars |-> 15000, marker |-> TRUE]

\* the {...} span of the response as the Vision Extractor sees it, parsed
VisionParsed ==
    LET m == JsonMatch(extractorResponse.content)
        p == JsonParse(m.span, extractorResponse.obj)
    IN  [ok |-> extractorResponse.call = "ok" /\ m.found /\ p.ok, value |-> p.value]

\* C25: every record of the Vision Extractor has exactly the five fields, each
\* either null or the payload's value of that field: a member that is missing
\* or empty gives null for that field alone, and a record is always produced
C25_FieldsIndependentlyOptional ==
    extracted # NoResult =>
        /\ DOMAIN extracted.carDetails = CarKeys
        /\ \A k \in CarKeys :
             /\ extracted.carDetails[k] \in {JNull, Get(extractorResponse.obj, k)}
             /\ VisionParsed.ok =>
                  extracted.carDetails[k] =
                      IF Get(VisionParsed.value, k) \in {JUndef, JNull, JStr("")} THEN JNull
                      ELSE Get(VisionParsed.value, k)

\* the colour was kept although the model is missing and the number is empty
C25_Witness ==
    /\ extracted # NoResult
    /\ extractorResponse.shape = "bare"
    /\ Get(extractorResponse.obj, "carColor") = JStr("red")
    /\ Get(extractorResponse.obj, "carModel") = JUndef
    /\ Get(extractorResponse.obj, "carNumber") = JStr("")
    /\ extracted.carDetails.carColor = JStr("red")
    /\ extracted.carDetails.carModel = JNull
    /\ extracted.carDetails.carNumber = JNull

-----------------------------------------------------------------------------
(* Claims about the scope of the listing, checked under SpecList *)

\* the positions of fileKeys the job downloaded, or tried to
DownloadedPositions == {i \in 1..Len(fileLog) : fileLog[i].download # "none"}

-----------------------------------------------------------------------------
(* Claims about the vector-store connection, checked under SpecQdrant *)

\* C26: on one service instance the vector store is initialized exactly once
\* however many searches are issued, concurrent ones included, and every
\* search that queries the store does so after the initialization completed
C26_InitializedOnceBeforeUse ==
    /\ initCount = 1
    /\ \A c \in 1..Len(callers) :
         /\ callers[c].pc = "querying" => initPromise = "resolved"
         /\ callers[c].store \in {"none", "resolved"}

\* two searches issued on the instance query the store at the same time
C26_Witness ==
    /\ initCount = 1
    /\ Len(callers) >= 2
    /\ callers[1].pc = "querying"
    /\ callers[2].pc = "querying"

-----------------------------------------------------------------------------
(* Claims about the record loop of a batch, checked under SpecBatch *)

\* C29: the records of a batch are processed strictly one after another in
\* batch order: at most one record is being processed at any time, and the
\* record in flight is the next in order, every earlier record having settled
C29_RecordsProcessedSequentially ==
    /\ Cardinality(inFlight) <= 1
    /\ \A i \in inFlight :
         /\ i = recIdx
         /\ Len(recordLog) = i - 1

\* the second record is in flight after the first one failed
C29_Witness ==
    /\ inFlight = {2}
    /\ Len(recordLog) = 1
    /\ recordLog[1].error # NoError

-----------------------------------------------------------------------------
(* Claims about the local queue poller, checked under SpecPoller *)

\* the pollAndProcess invocations that have not returned or thrown
InFlightCycles == {c \in 1..Len(cycles) : cycles[c].pc \in InFlightPcs}

\* C30 (as claimed): the poller never has two poll-and-process cycles in
\* flight at the same time: a new cycle starts only after the previous one
\* has completed
C30_OneCycleAtATime == Cardinality(InFlightCycles) <= 1

====
